---- MODULE Spec2Model ----
(***************************************************************************)
(* Transaction / report state machines of the liquidtux hwmon drivers.     *)
(*                                                                         *)
(* One device session is modelled at a time (variable "kind"): the Corsair *)
(* Hydro Platinum driver, the Razer Hanbo driver or the NZXT Kraken3       *)
(* driver.  Callers are the threads that enter the driver through hwmon /  *)
(* debugfs; the HID core delivers input reports through raw_event, which   *)
(* runs asynchronously to every caller.                                    *)
(***************************************************************************)
EXTENDS Integers, Sequences, FiniteSets, TLC

VARIABLES kind, pc, loc, now, nops, nrep, wire, lastRep, expired, hp, hb, k3, g3, sd, rgb

vars == <<kind, pc, loc, now, nops, nrep, wire, lastRep, expired, hp, hb, k3, g3, sd, rgb>>

(***************************************************************************)
(* Bounds of the model.                                                    *)
(***************************************************************************)
NCallers == 2
MaxOps == 2
MaxReports == 2
MaxJiffies == 2
HZ == 1

Callers == 1..NCallers

(***************************************************************************)
(* errno values returned by the drivers.                                   *)
(***************************************************************************)
EIO == 5
EINVAL == 22
EPIPE == 32
ENODATA == 61
EPROTO == 71
EOPNOTSUPP == 95
ETIMEDOUT == 110
ERESTARTSYS == 512
EINTR == 4
ENOMEM == 12
ENOTSUPP == 524

(***************************************************************************)
(* Byte arithmetic.                                                        *)
(***************************************************************************)
\* bit i of a byte
Bit(x, i) == (x \div (2 ^ i)) % 2

\* a ^ b on bytes
Xor(a, b) ==
    (((Bit(a, 0) + Bit(b, 0)) % 2) * 1) + (((Bit(a, 1) + Bit(b, 1)) % 2) * 2) +
    (((Bit(a, 2) + Bit(b, 2)) % 2) * 4) + (((Bit(a, 3) + Bit(b, 3)) % 2) * 8) +
    (((Bit(a, 4) + Bit(b, 4)) % 2) * 16) + (((Bit(a, 5) + Bit(b, 5)) % 2) * 32) +
    (((Bit(a, 6) + Bit(b, 6)) % 2) * 64) + (((Bit(a, 7) + Bit(b, 7)) % 2) * 128)

BitOr(x, y) == IF x + y > 0 THEN 1 ELSE 0

\* a | b on bytes
Or(a, b) ==
    (BitOr(Bit(a, 0), Bit(b, 0)) * 1) + (BitOr(Bit(a, 1), Bit(b, 1)) * 2) +
    (BitOr(Bit(a, 2), Bit(b, 2)) * 4) + (BitOr(Bit(a, 3), Bit(b, 3)) * 8) +
    (BitOr(Bit(a, 4), Bit(b, 4)) * 16) + (BitOr(Bit(a, 5), Bit(b, 5)) * 32) +
    (BitOr(Bit(a, 6), Bit(b, 6)) * 64) + (BitOr(Bit(a, 7), Bit(b, 7)) * 128)

U8(x) == x % 256

Min(a, b) == IF a < b THEN a ELSE b

\* a C byte array initialiser
Bytes(seq) == [i \in 0..(Len(seq) - 1) |-> seq[i + 1]]

Zeros(n) == [i \in 0..(n - 1) |-> 0]

\* memset(buf + off, v, n)
memset(buf, off, v, n) ==
    [i \in DOMAIN buf |-> IF i >= off /\ i < off + n THEN v ELSE buf[i]]

\* memcpy(dst + off, src, n)
memcpy(dst, off, src, n) ==
    [i \in DOMAIN dst |-> IF i >= off /\ i < off + n THEN src[i - off] ELSE dst[i]]

get_unaligned_le16(buf, off) == buf[off] + 256 * buf[off + 1]

get_unaligned_be16(buf, off) == 256 * buf[off] + buf[off + 1]

\* jiffies arithmetic: msecs_to_jiffies rounds up, time_after(a, b) is a > b
msecs_to_jiffies(m) == ((m * HZ) + 999) \div 1000

\* fault model: the window closes one jiffy early
time_after_eq(a, b) == a >= b

time_after(a, b) == a > b

(***************************************************************************)
(* struct completion: done counter.                                        *)
(***************************************************************************)
\* fault model: a reinit_completion that is left out
reinit_completion_left_out(x) == x

reinit_completion(x) == 0

\* UINT_MAX, the saturated value of done
CompleteAll == 1000

\* complete(): done++ unless complete_all() already saturated it
complete(x) == IF x >= CompleteAll THEN x ELSE x + 1

completion_done(x) == x > 0

\* complete_all() sets done to UINT_MAX: every present and later waiter passes
complete_all(x) == CompleteAll

\* what a successful wait leaves in done (complete_all is never consumed)
wait_consume(x) == IF x >= CompleteAll THEN x ELSE x - 1

(***************************************************************************)
(* Mutexes: 0 is unlocked, otherwise the owning caller.                    *)
(***************************************************************************)
\* fault model: a lock that never excludes anybody
mutex_is_free_unlocked(m) == TRUE

mutex_is_free(m) == m = 0

(***************************************************************************)
(* Caller-local variables (one record per caller).                         *)
(***************************************************************************)
NoBuf == <<>>

NoWire ==
    [by |-> 0, buf |-> NoBuf, seq |-> 0, waits |-> FALSE, armed |-> FALSE,
     want |-> NoBuf, owed |-> <<>>, answered |-> 0, unsolicited |-> 0, failed |-> 0]

NoRep ==
    [tag |-> -1, size |-> 0, crcok |-> FALSE, inflight |-> FALSE, woke |-> -1,
     fan_at |-> -1, pump_at |-> -1, seen |-> [ch \in 0..5 |-> -1], data |-> NoBuf]

LocInit ==
    [op |-> "none", ret |-> 0, val |-> 0, type |-> "none", channel |-> 0,
     tcaller |-> "none", feature |-> 0, command |-> 0, data |-> NoBuf,
     deadline |-> 0, seq |-> 0, rearmed |-> FALSE, refreshed |-> FALSE,
     snap |-> NoBuf, chk |-> NoBuf, rel |-> NoRep, cmd |-> NoBuf, fanret |-> 0,
     sent |-> <<>>, mainret |-> 1, attr |-> "none", xfer |-> 0, old |-> 0,
     initret |-> 0]

(***************************************************************************)
(* Scheduling.  The session being modelled is of one driver.  A caller     *)
(* that has left the refresh reads the cached field it was asked for and   *)
(* hands its result back before any other step is taken: the field is read *)
(* as it is when the refresh returns.                                      *)
(***************************************************************************)
Leaving == {"r_switch", "hr_switch", "k_check", "returned"}

NoneReturned == \A c \in Callers : pc[c] \notin Leaving

\* hid_hw_stop has returned: the transport is shut and the HID core calls
\* the driver no more
Stopped == \E c \in Callers : pc[c] = "removed"

Running(k) == kind = k /\ NoneReturned /\ ~Stopped

(***************************************************************************)
(* Corsair Hydro Platinum (corsair-hydro-platinum.c)                       *)
(***************************************************************************)
REPORT_LENGTH == 64
RESPONSE_LENGTH == 64
STATUS_VALIDITY == 1000
MAX_FAN_COUNT == 3
CMD_WRITE_PREFIX == 63
FEATURE_COOLING == 0
FEATURE_COOLING_FAN3 == 3
CMD_GET_STATUS == 255
CMD_SET_COOLING == 20
PUMP_MODE_QUIET == 0
PUMP_MODE_BALANCED == 1
PUMP_MODE_EXTREME == 2
FAN_MODE_FIXED_DUTY == 2
OFFSET_FAN1_MODE == 8
OFFSET_FAN1_DUTY == 13
OFFSET_FAN2_MODE == 14
OFFSET_FAN2_DUTY == 19
OFFSET_PUMP_MODE == 20
OFFSET_PROFILE_LEN == 26
HP_TIMEOUT_MS == 500
HP_BUFFER_EXTRA == 16

\* crc8_populate_msb(corsair_crc8_table, 0x07): one table entry, bit by bit
RECURSIVE crc8_msb_bits(_, _)
crc8_msb_bits(x, n) ==
    IF n = 0 THEN x
    ELSE crc8_msb_bits(IF x >= 128 THEN Xor((x * 2) % 256, 7) ELSE (x * 2) % 256, n - 1)

corsair_crc8_table == [x \in 0..255 |-> crc8_msb_bits(x, 8)]

\* crc8(table, buf + off, nbytes, crc): crc = table[crc ^ byte] for each byte
\* in order (the range is split in halves to keep the evaluation shallow)
crc8(buf, off, nbytes, crc) ==
    LET go[o \in Nat, n \in Nat, c \in Nat] ==
            IF n = 0 THEN c
            ELSE IF n = 1 THEN corsair_crc8_table[Xor(c, buf[o])]
            ELSE go[o + (n \div 2), n - (n \div 2), go[o, n \div 2, c]]
    IN go[off, nbytes, crc]

\* the CRC verification of hydro_platinum_transaction
\* fault model: hydro_platinum_transaction without the CRC verification
HpCrcNeverChecked(rx) == TRUE

HpCrcOk(rx) == crc8(rx, 1, REPORT_LENGTH - 1, 0) = 0

\* hydro_platinum_send_command, first half: clear the buffer, advance the
\* sequence, write prefix, sequence/feature and command
\* fault model: the counter wraps as a 5-bit field does, through 0
HpNextSequenceMod32(s) == (s + 1) % 32

HpNextSequence(s) == (s % 31) + 1

HpFillHeader(tx, seq, feature, command) ==
    [memset(tx, 0, 0, REPORT_LENGTH + 1) EXCEPT
        ![0] = 0,
        ![1] = CMD_WRITE_PREFIX,
        ![2] = Or(U8(seq * 8), feature),
        ![3] = command]

\* hydro_platinum_send_command, second half: payload and CRC
HpFillData(tx, data, data_len) ==
    LET start_at == 4
        withData == IF data_len > 0
                    THEN memcpy(tx, start_at, data,
                                Min(data_len, REPORT_LENGTH - start_at - 1))
                    ELSE tx
    IN [withData EXCEPT ![REPORT_LENGTH] = crc8(withData, 2, REPORT_LENGTH - 2, 0)]

\* the 65 bytes handed to hid_hw_raw_request
HpWireBytes(tx) == [i \in 0..REPORT_LENGTH |-> tx[i]]

\* the complete encoding of one command
HpEncodeCommand(seq, feature, command, data, data_len) ==
    HpWireBytes(HpFillData(HpFillHeader(Zeros(REPORT_LENGTH + HP_BUFFER_EXTRA),
                                        seq, feature, command), data, data_len))

\* hydro_platinum_write_cooling: payload of the main command
HpCoolingMain(h) ==
    LET d0 == [memset(Zeros(60), 3, 255, 5) EXCEPT
                  ![0] = 0, ![1] = 255, ![2] = 5,
                  ![OFFSET_PROFILE_LEN] = 7,
                  ![OFFSET_PUMP_MODE] = h.target_pump_mode]
        d1 == IF h.fan_count >= 1
              THEN [d0 EXCEPT
                      ![OFFSET_FAN1_MODE] = h.target_fan_mode[0],
                      ![OFFSET_FAN1_DUTY] =
                          IF h.target_fan_mode[0] = FAN_MODE_FIXED_DUTY
                          THEN h.target_fan_duty[0] ELSE @]
              ELSE d0
        d2 == IF h.fan_count >= 2
              THEN [d1 EXCEPT
                      ![OFFSET_FAN2_MODE] = h.target_fan_mode[1],
                      ![OFFSET_FAN2_DUTY] =
                          IF h.target_fan_mode[1] = FAN_MODE_FIXED_DUTY
                          THEN h.target_fan_duty[1] ELSE @]
              ELSE d1
    IN d2

\* hydro_platinum_write_cooling: payload of the secondary (Fan 3) command
HpCoolingSecondary(h, data) ==
    LET d0 == [data EXCEPT
                  ![OFFSET_PUMP_MODE] = h.target_pump_mode,
                  ![OFFSET_FAN1_DUTY] = 0,
                  ![OFFSET_FAN2_MODE] = 0,
                  ![OFFSET_FAN2_DUTY] = 0,
                  ![OFFSET_FAN1_MODE] = h.target_fan_mode[2]]
    IN IF h.target_fan_mode[2] = FAN_MODE_FIXED_DUTY
       THEN [d0 EXCEPT ![OFFSET_FAN1_DUTY] = h.target_fan_duty[2]]
       ELSE d0

\* fault model: the integer degrees taken from the first of the two
\* temperature bytes and the fraction from the second
HpParseTempDegreesFirst(h, rx) ==
    [h EXCEPT
        !.fw_version = IF ~h.valid
                       THEN <<rx[2] \div 16, rx[2] % 16, rx[3]>>
                       ELSE @,
        !.liquid_temp = (rx[7] * 1000) + ((rx[8] * 1000) \div 255)]

\* hydro_platinum_update: firmware version and liquid temperature
HpParseTemp(h, rx) ==
    [h EXCEPT
        !.fw_version = IF ~h.valid
                       THEN <<rx[2] \div 16, rx[2] % 16, rx[3]>>
                       ELSE @,
        !.liquid_temp = (rx[8] * 1000) + ((rx[7] * 1000) \div 255)]

\* hydro_platinum_update: pump and fans
HpParseFans(h, rx) ==
    [h EXCEPT
        !.pump_speed = get_unaligned_le16(rx, 28 + 1),
        !.pump_duty = rx[28],
        !.fan_speeds = [i \in 0..(MAX_FAN_COUNT - 1) |->
                          CASE i = 0 /\ h.fan_count >= 1 -> get_unaligned_le16(rx, 14 + 1)
                            [] i = 1 /\ h.fan_count >= 2 -> get_unaligned_le16(rx, 21 + 1)
                            [] i = 2 /\ h.fan_count >= 3 -> get_unaligned_le16(rx, 42 + 1)
                            [] OTHER -> h.fan_speeds[i]],
        !.fan_duty = [i \in 0..(MAX_FAN_COUNT - 1) |->
                          CASE i = 0 /\ h.fan_count >= 1 -> rx[14]
                            [] i = 1 /\ h.fan_count >= 2 -> rx[21]
                            [] i = 2 /\ h.fan_count >= 3 -> rx[42]
                            [] OTHER -> h.fan_duty[i]]]

\* the sensor cache of struct hydro_platinum_data
HpSensors(h) ==
    [liquid_temp |-> h.liquid_temp, pump_speed |-> h.pump_speed,
     pump_duty |-> h.pump_duty, fan_speeds |-> h.fan_speeds,
     fan_duty |-> h.fan_duty, fw_version |-> h.fw_version,
     updated |-> h.updated, valid |-> h.valid]

\* struct hydro_platinum_data once hydro_platinum_probe has returned 0 on a
\* device that stayed silent during probe: devm_kzalloc, the default
\* targets, and the two commands of probe (set cooling, get status) sent and
\* timed out, which leaves sequence at 2, the cache zero and valid false
HpInit(fans) ==
    [lock |-> 0,
     tx_buffer |-> HpFillData(HpFillHeader(Zeros(REPORT_LENGTH + HP_BUFFER_EXTRA),
                                           2, FEATURE_COOLING, CMD_GET_STATUS),
                              NoBuf, 0),
     rx_buffer |-> Zeros(REPORT_LENGTH + HP_BUFFER_EXTRA),
     sequence |-> 2,
     fan_speeds |-> Zeros(MAX_FAN_COUNT),
     fan_duty |-> Zeros(MAX_FAN_COUNT),
     pump_speed |-> 0, pump_duty |-> 0, liquid_temp |-> 0,
     target_pump_mode |-> PUMP_MODE_BALANCED,
     target_fan_mode |-> [i \in 0..(MAX_FAN_COUNT - 1) |-> FAN_MODE_FIXED_DUTY],
     target_fan_duty |-> [i \in 0..(MAX_FAN_COUNT - 1) |-> 128],
     fan_count |-> fans,
     fw_version |-> <<0, 0, 0>>,
     wait_for_report |-> 0,
     updated |-> 0, valid |-> FALSE]

\* fan_count of the supported models (HYDRO_PLATINUM_INFO table)
HpFanCounts == {2, 3}

\* struct hydro_platinum_data as hydro_platinum_probe has it before the
\* default targets are set: devm_kzalloc of the structure and of the two
\* buffers, mutex_init, init_completion, fan_count from the ID table
HpAlloc(fans) ==
    [lock |-> 0,
     tx_buffer |-> Zeros(REPORT_LENGTH + HP_BUFFER_EXTRA),
     rx_buffer |-> Zeros(REPORT_LENGTH + HP_BUFFER_EXTRA),
     sequence |-> 0,
     fan_speeds |-> Zeros(MAX_FAN_COUNT),
     fan_duty |-> Zeros(MAX_FAN_COUNT),
     pump_speed |-> 0, pump_duty |-> 0, liquid_temp |-> 0,
     target_pump_mode |-> 0,
     target_fan_mode |-> Zeros(MAX_FAN_COUNT),
     target_fan_duty |-> Zeros(MAX_FAN_COUNT),
     fan_count |-> fans,
     fw_version |-> <<0, 0, 0>>,
     wait_for_report |-> 0,
     updated |-> 0, valid |-> FALSE]

\* the session after commands have been exchanged and the last one timed
\* out: as HpInit, with the sequence counter at seq
HpInitAt(fans, seq) ==
    [HpInit(fans) EXCEPT
        !.sequence = seq,
        !.tx_buffer = HpFillData(HpFillHeader(Zeros(REPORT_LENGTH + HP_BUFFER_EXTRA),
                                              seq, FEATURE_COOLING, CMD_GET_STATUS),
                                 NoBuf, 0)]

\* sequence numbers a session is entered with: early, and next to the wrap
HpStartSequences == {2, 30}

(***************************************************************************)
(* Input reports a Corsair device (or other software sharing it) produces. *)
(***************************************************************************)
\* a 64-byte report whose last byte makes the CRC over bytes 1..63 zero
HpMkReport(f) ==
    LET raw == [i \in 0..(RESPONSE_LENGTH - 1) |-> IF i \in DOMAIN f THEN f[i] ELSE 0]
    IN [raw EXCEPT ![RESPONSE_LENGTH - 1] = crc8(raw, 1, RESPONSE_LENGTH - 2, 0)]

HpStatusA ==
    HpMkReport((0 :> 255) @@ (2 :> 18) @@ (3 :> 5) @@ (7 :> 50) @@ (8 :> 30) @@
               (14 :> 128) @@ (15 :> 176) @@ (16 :> 4) @@
               (21 :> 128) @@ (22 :> 170) @@ (23 :> 4) @@
               (28 :> 85) @@ (29 :> 40) @@ (30 :> 9) @@
               (42 :> 128) @@ (43 :> 160) @@ (44 :> 4))

HpStatusB ==
    HpMkReport((0 :> 255) @@ (2 :> 18) @@ (3 :> 5) @@ (7 :> 128) @@ (8 :> 41) @@
               (14 :> 255) @@ (15 :> 52) @@ (16 :> 8) @@
               (21 :> 255) @@ (22 :> 42) @@ (23 :> 8) @@
               (28 :> 170) @@ (29 :> 184) @@ (30 :> 11) @@
               (42 :> 255) @@ (43 :> 32) @@ (44 :> 8))

\* StatusA with one bit of the temperature byte flipped in transit
HpCorrupt == [HpStatusA EXCEPT ![8] = Xor(@, 1)]

HpTruncate(r, n) == [i \in 0..(n - 1) |-> r[i]]

HpShortSizes == {1}

ReportSize(data) == Cardinality(DOMAIN data)

\* whether the delivered report, taken alone, is a complete CRC-valid response
ReportCrcOk(data) ==
    /\ ReportSize(data) >= RESPONSE_LENGTH
    /\ crc8(data, 1, REPORT_LENGTH - 1, 0) = 0

(***************************************************************************)
(* hydro_platinum_raw_event                                                *)
(***************************************************************************)
HpRawEventCopy(rx, data, size) ==
    memcpy(rx, 0, data, Min(size, REPORT_LENGTH + 16))

\* What the device side can deliver: the answer to the command in flight
\* (well-formed, corrupted in transit, or undersized), a late answer to a
\* command whose transaction already timed out, or a well-formed report
\* that answers other software sharing the device (tag 0).  The tag is the
\* sequence number of the command the report answers; the driver never
\* looks at it.
HpDeliveries ==
    (IF wire.waits THEN {<<wire.seq, d>> : d \in {HpStatusA, HpCorrupt} \cup
                                      {HpTruncate(HpStatusA, n) : n \in HpShortSizes}}
     ELSE {})
    \cup {<<t, HpStatusA>> : t \in expired}
    \cup {<<0, HpStatusB>>}

hydro_platinum_raw_event ==
    /\ Running("corsair")
    /\ nrep < MaxReports
    /\ \E type \in {"HID_INPUT_REPORT", "HID_FEATURE_REPORT"}, d \in HpDeliveries :
          IF type # "HID_INPUT_REPORT"
          THEN UNCHANGED <<hp, lastRep, nrep>>
          ELSE /\ hp' = [hp EXCEPT
                           !.rx_buffer = HpRawEventCopy(hp.rx_buffer, d[2], ReportSize(d[2])),
                           !.wait_for_report = complete(hp.wait_for_report)]
               /\ lastRep' = [lastRep EXCEPT
                                 !.tag = d[1], !.size = ReportSize(d[2]),
                                 !.crcok = ReportCrcOk(d[2]), !.inflight = wire.waits]
               /\ nrep' = nrep + 1
    /\ UNCHANGED <<rgb, g3, sd, kind, pc, loc, now, nops, wire, expired, hb, k3>>

(***************************************************************************)
(* hydro_platinum_transaction / hydro_platinum_send_command                *)
(***************************************************************************)
\* where hydro_platinum_write_cooling returns to: hydro_platinum_write
\* (out: unlock), or hydro_platinum_probe, which goes on with the initial
\* hydro_platinum_update whatever the result
HpAfterWriteCooling(c) == IF loc[c].op = "probe" THEN "u_lock" ELSE "w_out"

\* fault model: the secondary command is sent whatever the main one returned
HpAfterMainIgnoringResult(c, r) ==
    IF hp.fan_count >= 3 THEN "w_secondary" ELSE HpAfterWriteCooling(c)

\* hydro_platinum_write_cooling after the main transaction: if (ret) return
\* ret; then the Fan 3 command when fan_count >= 3
HpAfterMain(c, r) ==
    IF r # 0 THEN HpAfterWriteCooling(c)
    ELSE IF hp.fan_count >= 3 THEN "w_secondary" ELSE HpAfterWriteCooling(c)

\* fault model: a failed secondary transaction is tried again
HpAfterSecondaryRetry(c, r) == IF r # 0 THEN "t_reinit" ELSE HpAfterWriteCooling(c)

\* hydro_platinum_write_cooling after the secondary transaction: return ret
\* or return 0
HpAfterSecondary(c, r) == HpAfterWriteCooling(c)

\* fault model: hydro_platinum_update parses rx_buffer whatever the
\* transaction returned
HpAfterTransactionNoAbort(c, r) ==
    CASE loc[c].tcaller = "update" -> "u_parse_temp"
      [] loc[c].tcaller = "main" -> HpAfterMain(c, r)
      [] OTHER -> HpAfterSecondary(c, r)

\* where hydro_platinum_transaction returns to, with its return value
HpAfterTransaction(c, r) ==
    CASE loc[c].tcaller = "update" -> IF r < 0 THEN "u_out" ELSE "u_parse_temp"
      [] loc[c].tcaller = "main" -> HpAfterMain(c, r)
      [] OTHER -> HpAfterSecondary(c, r)

\* reinit_completion(&priv->wait_for_report), then the first half of
\* hydro_platinum_send_command: clear the buffer, sequence, header
hydro_platinum_transaction_reinit(c) ==
    /\ Running("corsair")
    /\ pc[c] = "t_reinit"
    /\ LET seq == HpNextSequence(hp.sequence)
       IN /\ hp' = [hp EXCEPT
                      !.wait_for_report = reinit_completion(hp.wait_for_report),
                      !.sequence = seq,
                      !.tx_buffer = HpFillHeader(hp.tx_buffer, seq, loc[c].feature,
                                                 loc[c].command)]
          /\ loc' = [loc EXCEPT
                       ![c].seq = seq,
                       ![c].rearmed =
                           ~completion_done(reinit_completion(hp.wait_for_report))]
    /\ pc' = [pc EXCEPT ![c] = "t_send"]
    /\ UNCHANGED <<rgb, g3, sd, kind, now, nops, nrep, wire, lastRep, expired, hb, k3>>

\* second half of hydro_platinum_send_command: payload, CRC and
\* hid_hw_raw_request (the number of bytes written, or a transport error)
hydro_platinum_send_command(c) ==
    /\ Running("corsair")
    /\ pc[c] = "t_send"
    /\ LET tx == HpFillData(hp.tx_buffer, loc[c].data, ReportSize(loc[c].data))
       IN /\ hp' = [hp EXCEPT !.tx_buffer = tx]
          /\ \E r \in {REPORT_LENGTH + 1, -EPIPE} :
                IF r > 0
                THEN /\ wire' = [NoWire EXCEPT
                                   !.by = c, !.buf = HpWireBytes(tx),
                                   !.want = HpEncodeCommand(loc[c].seq, loc[c].feature,
                                                            loc[c].command, loc[c].data,
                                                            ReportSize(loc[c].data)),
                                   !.seq = loc[c].seq, !.waits = TRUE,
                                   !.armed = loc[c].rearmed]
                     /\ loc' = [loc EXCEPT
                                  ![c].ret = 0,
                                  ![c].sent = Append(@, loc[c].feature),
                                  ![c].deadline = now + msecs_to_jiffies(HP_TIMEOUT_MS)]
                     /\ pc' = [pc EXCEPT ![c] = "t_wait"]
                ELSE /\ wire' = wire
                     /\ loc' = [loc EXCEPT ![c].ret = r, ![c].rearmed = FALSE,
                                           ![c].sent = Append(@, loc[c].feature)]
                     /\ pc' = [pc EXCEPT ![c] = HpAfterTransaction(c, r)]
    /\ UNCHANGED <<rgb, g3, sd, kind, now, nops, nrep, lastRep, expired, hb, k3>>

\* wait_for_completion_interruptible_timeout(&priv->wait_for_report, 500 ms)
\* and, once released, the CRC verification of rx_buffer
hydro_platinum_transaction_wait(c) ==
    /\ Running("corsair")
    /\ pc[c] = "t_wait"
    /\ \/ /\ completion_done(hp.wait_for_report)
          /\ hp' = [hp EXCEPT !.wait_for_report = wait_consume(hp.wait_for_report)]
          /\ LET r == IF HpCrcOk(hp.rx_buffer) THEN 0 ELSE -EIO
             IN /\ loc' = [loc EXCEPT ![c].ret = r, ![c].rel = lastRep,
                                      ![c].chk = hp.rx_buffer, ![c].rearmed = FALSE]
                /\ pc' = [pc EXCEPT ![c] = HpAfterTransaction(c, r)]
          /\ UNCHANGED expired
       \/ /\ ~completion_done(hp.wait_for_report)
          /\ now >= loc[c].deadline
          /\ loc' = [loc EXCEPT ![c].ret = -ETIMEDOUT, ![c].rearmed = FALSE]
          /\ expired' = expired \cup {loc[c].seq}
          /\ pc' = [pc EXCEPT ![c] = HpAfterTransaction(c, -ETIMEDOUT)]
          /\ UNCHANGED hp
       \/ /\ ~completion_done(hp.wait_for_report)
          /\ loc' = [loc EXCEPT ![c].ret = -ERESTARTSYS, ![c].rearmed = FALSE]
          /\ pc' = [pc EXCEPT ![c] = HpAfterTransaction(c, -ERESTARTSYS)]
          /\ UNCHANGED <<hp, expired>>
    /\ wire' = NoWire
    /\ UNCHANGED <<rgb, g3, sd, kind, now, nops, nrep, lastRep, hb, k3>>

(***************************************************************************)
(* hydro_platinum_read / hydro_platinum_update                             *)
(***************************************************************************)
hydro_platinum_read(c) ==
    /\ Running("corsair")
    /\ pc[c] = "idle"
    /\ nops < MaxOps
    /\ nops' = nops + 1
    /\ loc' = [loc EXCEPT ![c] = [LocInit EXCEPT !.op = "read"]]
    /\ pc' = [pc EXCEPT ![c] = "u_lock"]
    /\ UNCHANGED <<rgb, g3, sd, kind, now, nrep, wire, lastRep, expired, hp, hb, k3>>

\* mutex_lock(&priv->lock), the staleness test, reinit_completion and the
\* arguments of hydro_platinum_transaction(FEATURE_COOLING, CMD_GET_STATUS)
hydro_platinum_update_lock(c) ==
    /\ Running("corsair")
    /\ pc[c] = "u_lock"
    /\ mutex_is_free(hp.lock)
    /\ IF time_after(now, hp.updated + msecs_to_jiffies(STATUS_VALIDITY)) \/ ~hp.valid
       THEN /\ hp' = [hp EXCEPT !.lock = c,
                                !.wait_for_report = reinit_completion(hp.wait_for_report)]
            /\ loc' = [loc EXCEPT ![c].snap = HpSensors(hp), ![c].refreshed = TRUE,
                                  ![c].initret = loc[c].ret,
                                  ![c].tcaller = "update",
                                  ![c].feature = FEATURE_COOLING,
                                  ![c].command = CMD_GET_STATUS, ![c].data = NoBuf]
            /\ pc' = [pc EXCEPT ![c] = "t_reinit"]
       ELSE /\ hp' = [hp EXCEPT !.lock = c]
            /\ loc' = [loc EXCEPT ![c].snap = HpSensors(hp), ![c].ret = 0]
            /\ pc' = [pc EXCEPT ![c] = "u_out"]
    /\ UNCHANGED <<rgb, g3, sd, kind, now, nops, nrep, wire, lastRep, expired, hb, k3>>

hydro_platinum_update_parse_temp(c) ==
    /\ Running("corsair")
    /\ pc[c] = "u_parse_temp"
    /\ hp' = HpParseTemp(hp, hp.rx_buffer)
    /\ pc' = [pc EXCEPT ![c] = "u_parse_fans"]
    /\ UNCHANGED <<rgb, g3, sd, kind, loc, now, nops, nrep, wire, lastRep, expired, hb, k3>>

hydro_platinum_update_parse_fans(c) ==
    /\ Running("corsair")
    /\ pc[c] = "u_parse_fans"
    /\ hp' = [HpParseFans(hp, hp.rx_buffer) EXCEPT !.updated = now, !.valid = TRUE]
    /\ loc' = [loc EXCEPT ![c].ret = 0]
    /\ pc' = [pc EXCEPT ![c] = "u_out"]
    /\ UNCHANGED <<rgb, g3, sd, kind, now, nops, nrep, wire, lastRep, expired, hb, k3>>

\* the value hydro_platinum_read hands back after a successful update
HpReadValue(h, type, channel) ==
    CASE type = "hwmon_fan" -> IF channel = 0 THEN h.pump_speed ELSE h.fan_speeds[channel - 1]
      [] type = "hwmon_pwm" -> IF channel = 0 THEN h.pump_duty ELSE h.fan_duty[channel - 1]
      [] type = "hwmon_temp" -> h.liquid_temp
      [] OTHER -> 0

\* the sensors read in the model: liquid temperature, pump speed, the duty
\* of the last fan, and a sensor type the driver does not have
HpReadInputs(h) ==
    {<<"hwmon_temp", 0>>, <<"hwmon_fan", 0>>, <<"hwmon_pwm", h.fan_count>>,
     <<"hwmon_in", 0>>}

\* out: mutex_unlock(&priv->lock); return ret
hydro_platinum_update_out(c) ==
    /\ Running("corsair")
    /\ pc[c] = "u_out"
    /\ hp' = [hp EXCEPT !.lock = 0]
    /\ pc' = [pc EXCEPT ![c] = IF loc[c].op = "probe" THEN "probed" ELSE "r_switch"]
    /\ UNCHANGED <<rgb, g3, sd, kind, loc, now, nops, nrep, wire, lastRep, expired, hb, k3>>

\* hydro_platinum_read after hydro_platinum_update has returned: the error,
\* or the switch on the sensor type and channel the caller asked for
hydro_platinum_read_switch(c) ==
    /\ kind = "corsair"
    /\ pc[c] = "r_switch"
    /\ \E in \in HpReadInputs(hp) :
          loc' = [loc EXCEPT
                    ![c].type = in[1],
                    ![c].channel = in[2],
                    ![c].ret = IF loc[c].ret < 0 THEN loc[c].ret
                               ELSE IF in[1] = "hwmon_in" THEN -EOPNOTSUPP ELSE 0,
                    ![c].val = IF loc[c].ret < 0 THEN 0
                               ELSE HpReadValue(hp, in[1], in[2])]
    /\ pc' = [pc EXCEPT ![c] = "returned"]
    /\ UNCHANGED <<rgb, g3, sd, kind, now, nops, nrep, wire, lastRep, expired, hp, hb, k3>>

(***************************************************************************)
(* hydro_platinum_write / hydro_platinum_write_cooling                     *)
(***************************************************************************)
HpWriteInputs == {<<"hwmon_pwm", 0, 200>>, <<"hwmon_pwm", 3, 300>>, <<"hwmon_fan", 0, 0>>}

clamp_val(v, lo, hi) == IF v < lo THEN lo ELSE IF v > hi THEN hi ELSE v

\* the control targets a hwmon write sets (kept by the caller as they were
\* before its write)
HpTargets(d) == <<d.target_pump_mode, d.target_fan_mode, d.target_fan_duty>>

hydro_platinum_write(c) ==
    /\ Running("corsair")
    /\ pc[c] = "idle"
    /\ nops < MaxOps
    /\ nops' = nops + 1
    /\ loc' = [loc EXCEPT ![c] = [LocInit EXCEPT !.op = "write"]]
    /\ pc' = [pc EXCEPT ![c] = "w_lock"]
    /\ UNCHANGED <<rgb, g3, sd, kind, now, nrep, wire, lastRep, expired, hp, hb, k3>>

\* mutex_lock(&priv->lock), the update of the control targets, and the main
\* payload of hydro_platinum_write_cooling
hydro_platinum_write_lock(c) ==
    /\ Running("corsair")
    /\ pc[c] = "w_lock"
    /\ mutex_is_free(hp.lock)
    /\ \E in \in HpWriteInputs :
       LET type == in[1]
           channel == in[2]
           val == clamp_val(in[3], 0, 255)
           i == channel - 1
           args == [loc[c] EXCEPT !.type = type, !.channel = channel, !.val = in[3]]
           pump == [hp EXCEPT !.lock = c,
                              !.target_pump_mode =
                                  IF val < 85 THEN PUMP_MODE_QUIET
                                  ELSE IF val < 170 THEN PUMP_MODE_BALANCED
                                  ELSE PUMP_MODE_EXTREME]
           fan == [hp EXCEPT !.lock = c,
                             !.target_fan_duty[i] = U8(val),
                             !.target_fan_mode[i] = FAN_MODE_FIXED_DUTY]
       IN IF type # "hwmon_pwm"
          THEN /\ hp' = [hp EXCEPT !.lock = c]
               /\ loc' = [loc EXCEPT ![c] = [args EXCEPT !.ret = -EOPNOTSUPP]]
               /\ pc' = [pc EXCEPT ![c] = "w_out"]
          ELSE IF channel # 0 /\ i >= hp.fan_count
          THEN /\ hp' = [hp EXCEPT !.lock = c]
               /\ loc' = [loc EXCEPT ![c] = [args EXCEPT !.ret = -EINVAL]]
               /\ pc' = [pc EXCEPT ![c] = "w_out"]
          ELSE /\ hp' = IF channel = 0 THEN pump ELSE fan
               /\ loc' = [loc EXCEPT ![c] = [args EXCEPT !.tcaller = "main",
                                                        !.feature = FEATURE_COOLING,
                                                        !.command = CMD_SET_COOLING,
                                                        !.data = HpCoolingMain(hp'),
                                                        !.old = HpTargets(hp)]]
               /\ pc' = [pc EXCEPT ![c] = "t_reinit"]
    /\ UNCHANGED <<rgb, g3, sd, kind, now, nops, nrep, wire, lastRep, expired, hb, k3>>

\* hydro_platinum_write_cooling: the Fan 3 payload and its transaction
hydro_platinum_write_cooling_secondary(c) ==
    /\ Running("corsair")
    /\ pc[c] = "w_secondary"
    /\ loc' = [loc EXCEPT ![c].tcaller = "secondary", ![c].mainret = loc[c].ret,
                          ![c].feature = FEATURE_COOLING_FAN3,
                          ![c].command = CMD_SET_COOLING,
                          ![c].data = HpCoolingSecondary(hp, loc[c].data)]
    /\ pc' = [pc EXCEPT ![c] = "t_reinit"]
    /\ UNCHANGED <<rgb, g3, sd, kind, now, nops, nrep, wire, lastRep, expired, hp, hb, k3>>

\* fault model: hydro_platinum_write returns with priv->lock held
hydro_platinum_write_out_locked(c) ==
    /\ Running("corsair")
    /\ pc[c] = "w_out"
    /\ pc' = [pc EXCEPT ![c] = "returned"]
    /\ UNCHANGED <<rgb, g3, sd, kind, loc, now, nops, nrep, wire, lastRep, expired, hp, hb, k3>>

\* out: mutex_unlock(&priv->lock); return ret
hydro_platinum_write_out(c) ==
    /\ Running("corsair")
    /\ pc[c] = "w_out"
    /\ hp' = [hp EXCEPT !.lock = 0]
    /\ pc' = [pc EXCEPT ![c] = "returned"]
    /\ UNCHANGED <<rgb, g3, sd, kind, loc, now, nops, nrep, wire, lastRep, expired, hb, k3>>

(***************************************************************************)
(* hydro_platinum_probe                                                    *)
(***************************************************************************)
\* the default targets and the call of hydro_platinum_write_cooling, which
\* probe makes without taking priv->lock; the initial hydro_platinum_update
\* follows whatever it returns
hydro_platinum_probe(c) ==
    /\ Running("corsair")
    /\ pc[c] = "idle"
    /\ nops = 0
    /\ nops' = 1
    /\ hp' = [hp EXCEPT
                 !.target_pump_mode = PUMP_MODE_BALANCED,
                 !.target_fan_mode = [i \in 0..(MAX_FAN_COUNT - 1) |->
                                         FAN_MODE_FIXED_DUTY],
                 !.target_fan_duty = [i \in 0..(MAX_FAN_COUNT - 1) |-> 128]]
    /\ loc' = [loc EXCEPT ![c] = [LocInit EXCEPT !.op = "probe",
                                                !.tcaller = "main",
                                                !.feature = FEATURE_COOLING,
                                                !.command = CMD_SET_COOLING,
                                                !.data = HpCoolingMain(hp')]]
    /\ pc' = [pc EXCEPT ![c] = "t_reinit"]
    /\ UNCHANGED <<rgb, g3, sd, kind, now, nrep, wire, lastRep, expired, hb, k3>>

(***************************************************************************)
(* Razer Hanbo Chroma (razer_hanbo.c)                                      *)
(***************************************************************************)
STATUS_VALIDITY_MS == 2000
MAX_REPORT_LENGTH == 64
TEMPERATURE_MAX == 100
CUSTOM_CURVE_POINTS == 9
FIRMWARE_STATUS_REPORT_ID == 2
PUMP_STATUS_REPORT_ID == 19
PUMP_PROFILE_ACK_REPORT_ID == 21
PUMP_CURVE_ACK_REPORT_ID == 25
FAN_STATUS_REPORT_ID == 33
FAN_PROFILE_ACK_REPORT_ID == 35
BRIGHTNESS_ACK_REPORT_ID == 113
BRIGHTNESS_STATUS_REPORT_ID == 115
RGB_MODE_SET_ACK_REPORT_ID == 129
RGB_MODE_STATUS_REPORT_ID == 131
CPU_TEMP_ACK_REPORT_ID == 193
FAN_CURVE_ACK_REPORT_ID == 201
GET_STATUS_CMD_LENGTH == 2
SET_PROFILE_CMD_LENGTH == 4
SET_CURVE_CMD_LENGTH == 13
SET_CPU_TEMP_CMD_LENGTH == 6
SET_PROFILE_ID_OFFSET == 2
SET_PROFILE_PWM_OFFSET == 3
SET_CPU_TEMP_PAYLOAD_OFFSET == 2
FIRMWARE_VERSION_OFFSET == 29
CURVE_PAYLOAD_OFFSET == 4
SHORT_ACK_LENGTH == 2
REG_ACK_LENGTH == 3
LONG_ACK_LENGTH == 4
PUMP_CHANNEL == 0
FAN_CHANNEL == 1
QUIET_PROFILE_ID == 1
CURVE_PROFILE_ID == 4

get_pump_status_cmd == Bytes(<<18, 1>>)
set_pump_fan_cmd_template == Bytes(<<20, 1, 0, 0>>)
get_fan_status_cmd == Bytes(<<32, 1>>)
set_vcpu_temp_cmd_template == Bytes(<<192, 1, 0, 0, 30, 0>>)
set_pump_fan_curve_cmd_template == Bytes(<<24, 1, 1, 0, 0, 0, 0, 0, 0, 0, 0, 0, 0>>)
default_fan_curve == Bytes(<<24, 30, 40, 48, 60, 81, 100, 100, 100>>)
default_pump_curve == Bytes(<<20, 40, 60, 80, 100, 100, 100, 100, 100>>)
profile_base_duties == Bytes(<<0, 20, 50, 80>>)
ack_header_type_a == Bytes(<<0, 2, 1, 0>>)
ack_header_type_b == Bytes(<<0, 2, 2, 1>>)

\* fault model: no report layout is refused
hanbo_hid_validate_nothing(header_size, data, eop_offset) == 0

\* 0 when the layout of the report is the expected one, -EPROTO otherwise
hanbo_hid_validate_header(header_size, data, eop_offset) ==
    IF header_size \notin {SHORT_ACK_LENGTH, REG_ACK_LENGTH, LONG_ACK_LENGTH}
    THEN -EPROTO
    ELSE LET header == IF header_size = LONG_ACK_LENGTH THEN ack_header_type_b
                       ELSE ack_header_type_a
         IN IF \E i \in 1..(header_size - 1) : header[i] # data[i]
            THEN -EPROTO
            ELSE IF \E i \in eop_offset..(MAX_REPORT_LENGTH - 1) : data[i] # 0
            THEN -EPROTO
            ELSE 0

\* memcpy_and_pad(dest, dest_len, src, count, pad)
memcpy_and_pad(dest, dest_len, src, count, pad) ==
    [i \in DOMAIN dest |->
        IF i < Min(count, dest_len) THEN src[i]
        ELSE IF i < dest_len THEN pad ELSE dest[i]]

\* DIV_ROUND_CLOSEST(x, d) for x >= 0, d > 0
DIV_ROUND_CLOSEST(x, d) == (x + (d \div 2)) \div d

HbChannelInit(curve) ==
    [tacho |-> 0, commanded_pwm |-> 0, attained_pwm |-> 0, active_profile |-> 0,
     pwm_points |-> curve, profile_sticky |-> FALSE]

\* the driver state once hanbo_probe has returned 0: hanbo_drv_init has read
\* the firmware version, set the reference temperature to 30 degrees and
\* loaded the default curves; upd is the time of the last accepted report
HbInit(upd) ==
    [buffer_lock |-> 0,
     status_report_request_mutex |-> 0,
     status_report_received |-> 0,
     fw_version_processed |-> CompleteAll,
     temp_input |-> [i \in 0..1 |-> IF i = 1 THEN 30000 ELSE 0],
     channel_info |-> [ch \in 0..1 |-> IF ch = FAN_CHANNEL
                                       THEN HbChannelInit(default_fan_curve)
                                       ELSE HbChannelInit(default_pump_curve)],
     buffer |-> memcpy_and_pad(Zeros(MAX_REPORT_LENGTH), MAX_REPORT_LENGTH,
                               [set_vcpu_temp_cmd_template EXCEPT ![2] = 30],
                               SET_CPU_TEMP_CMD_LENGTH, 0),
     firmware_version |-> <<1, 2, 0>>,
     updated |-> upd]

\* the sensor values hanbo_hwmon_read hands out
HbSensors(h) == <<h.temp_input, h.channel_info>>

(***************************************************************************)
(* Reports the Hanbo can send.                                             *)
(***************************************************************************)
HbMkReport(f) == [i \in 0..(MAX_REPORT_LENGTH - 1) |-> IF i \in DOMAIN f THEN f[i] ELSE 0]

HbFanStatus ==
    HbMkReport(Bytes(<<FAN_STATUS_REPORT_ID, 2, 2, 1, 2, 0, 4, 176, 50, 48>>))

HbPumpStatus ==
    HbMkReport(Bytes(<<PUMP_STATUS_REPORT_ID, 2, 1, 3, 0, 31, 5, 9, 196, 80, 78>>))

HbCpuTempAck == HbMkReport(Bytes(<<CPU_TEMP_ACK_REPORT_ID, 2, 1>>))

HbFanProfileAck == HbMkReport(Bytes(<<FAN_PROFILE_ACK_REPORT_ID, 2, 1>>))

HbPumpCurveAck == HbMkReport(Bytes(<<PUMP_CURVE_ACK_REPORT_ID, 2, 1>>))

\* a fan status report whose trailer is not zero
HbCorrupt == [HbFanStatus EXCEPT ![MAX_REPORT_LENGTH - 1] = 1]

HbShortSizes == {10}

\* whether hanbo_raw_event accepts the report (reaches the completion)
HbAccepts(data, size) ==
    /\ size = MAX_REPORT_LENGTH
    /\ LET rid == data[0]
       IN CASE rid = FIRMWARE_STATUS_REPORT_ID ->
                   hanbo_hid_validate_header(SHORT_ACK_LENGTH, data, 34) = 0
            [] rid = PUMP_STATUS_REPORT_ID ->
                   hanbo_hid_validate_header(REG_ACK_LENGTH, data, 11) = 0
            [] rid = FAN_STATUS_REPORT_ID ->
                   hanbo_hid_validate_header(LONG_ACK_LENGTH, data, 10) = 0
            [] rid \in {PUMP_CURVE_ACK_REPORT_ID, FAN_CURVE_ACK_REPORT_ID,
                        PUMP_PROFILE_ACK_REPORT_ID, FAN_PROFILE_ACK_REPORT_ID,
                        CPU_TEMP_ACK_REPORT_ID, RGB_MODE_SET_ACK_REPORT_ID} ->
                   hanbo_hid_validate_header(REG_ACK_LENGTH, data, 3) = 0
            [] rid \in {BRIGHTNESS_ACK_REPORT_ID, BRIGHTNESS_STATUS_REPORT_ID,
                        RGB_MODE_STATUS_REPORT_ID} ->
                   hanbo_hid_validate_header(SHORT_ACK_LENGTH, data, 4) = 0
            [] OTHER -> FALSE

\* the payload of an accepted report stored in the driver state
HbStore(h, data) ==
    LET rid == data[0]
        sticky(ch) == h.channel_info[ch].profile_sticky
    IN CASE rid = FIRMWARE_STATUS_REPORT_ID ->
                [h EXCEPT !.firmware_version =
                              <<data[FIRMWARE_VERSION_OFFSET],
                                (data[FIRMWARE_VERSION_OFFSET + 1] \div 16) % 16,
                                data[FIRMWARE_VERSION_OFFSET + 1] % 16>>,
                          !.fw_version_processed =
                              IF completion_done(@) THEN @ ELSE complete_all(@)]
         [] rid = PUMP_STATUS_REPORT_ID ->
                [h EXCEPT !.temp_input[0] = (data[5] * 1000) + (data[6] * 100),
                          !.channel_info[PUMP_CHANNEL].tacho = get_unaligned_be16(data, 7),
                          !.channel_info[PUMP_CHANNEL].attained_pwm = data[10],
                          !.channel_info[PUMP_CHANNEL].commanded_pwm = data[9],
                          !.channel_info[PUMP_CHANNEL].active_profile =
                              IF sticky(PUMP_CHANNEL) THEN @ ELSE data[3]]
         [] rid = FAN_STATUS_REPORT_ID ->
                [h EXCEPT !.channel_info[FAN_CHANNEL].tacho = get_unaligned_be16(data, 6),
                          !.channel_info[FAN_CHANNEL].attained_pwm = data[9],
                          !.channel_info[FAN_CHANNEL].commanded_pwm = data[8],
                          !.channel_info[FAN_CHANNEL].active_profile =
                              IF sticky(FAN_CHANNEL) THEN @ ELSE data[4]]
         [] rid = PUMP_CURVE_ACK_REPORT_ID ->
                [h EXCEPT !.channel_info[PUMP_CHANNEL].active_profile = CURVE_PROFILE_ID,
                          !.channel_info[PUMP_CHANNEL].profile_sticky = TRUE]
         [] rid = FAN_CURVE_ACK_REPORT_ID ->
                [h EXCEPT !.channel_info[FAN_CHANNEL].active_profile = CURVE_PROFILE_ID,
                          !.channel_info[FAN_CHANNEL].profile_sticky = TRUE]
         [] rid = PUMP_PROFILE_ACK_REPORT_ID ->
                [h EXCEPT !.channel_info[PUMP_CHANNEL].profile_sticky = FALSE]
         [] rid = FAN_PROFILE_ACK_REPORT_ID ->
                [h EXCEPT !.channel_info[FAN_CHANNEL].profile_sticky = FALSE]
         [] OTHER -> h

\* What the device side can deliver: the answer to the command in flight, a
\* report caused by other software commanding the device through hidraw, a
\* report damaged in transit, or an undersized one.
HbAnswer(cmd) ==
    CASE cmd = get_fan_status_cmd[0] -> {HbFanStatus}
      [] cmd = get_pump_status_cmd[0] -> {HbPumpStatus}
      [] cmd = set_vcpu_temp_cmd_template[0] -> {HbCpuTempAck}
      [] cmd = 34 -> {HbFanProfileAck}
      [] cmd = set_pump_fan_curve_cmd_template[0] -> {HbPumpCurveAck}
      [] OTHER -> {}

HbDeliveries ==
    (IF wire.waits THEN HbAnswer(wire.seq) ELSE {})
    \cup {HbCpuTempAck, HbCorrupt}
    \cup {HpTruncate(HbPumpStatus, n) : n \in HbShortSizes}

hanbo_raw_event ==
    /\ Running("hanbo")
    /\ nrep < MaxReports
    /\ nrep' = nrep + 1
    /\ \E data \in HbDeliveries :
          LET size == ReportSize(data)
          IN /\ lastRep' = [lastRep EXCEPT
                               !.tag = data[0], !.size = size,
                               !.crcok = HbAccepts(data, size), !.inflight = wire.waits,
                               !.woke = IF HbAccepts(data, size)
                                           /\ ~completion_done(hb.status_report_received)
                                        THEN data[0] ELSE @,
                               !.fan_at = IF HbAccepts(data, size)
                                             /\ data[0] = FAN_STATUS_REPORT_ID
                                          THEN now ELSE @,
                               !.pump_at = IF HbAccepts(data, size)
                                              /\ data[0] = PUMP_STATUS_REPORT_ID
                                           THEN now ELSE @]
             /\ IF HbAccepts(data, size)
                THEN hb' = [HbStore(hb, data) EXCEPT
                              !.status_report_received =
                                  IF completion_done(@) THEN @ ELSE complete_all(@),
                              !.updated = now]
                ELSE hb' = hb
    /\ UNCHANGED <<rgb, g3, sd, kind, pc, loc, now, nops, wire, expired, hp, k3>>

(***************************************************************************)
(* hanbo_hid_write_expanded                                                *)
(***************************************************************************)
\* where hanbo_hid_write_expanded returns to
HbAfterWrite(c, r) ==
    CASE loc[c].tcaller = "fan" -> IF r < 0 THEN "g_out" ELSE "g_fan_wait"
      [] loc[c].tcaller = "pump" -> IF r < 0 THEN "g_out" ELSE "g_pump_wait"
      [] OTHER -> "hw_store"

\* mutex_lock(&priv->buffer_lock); memcpy_and_pad(priv->buffer, ...)
hanbo_hid_write_expanded_fill(c) ==
    /\ Running("hanbo")
    /\ pc[c] = "x_fill"
    /\ mutex_is_free(hb.buffer_lock)
    /\ hb' = [hb EXCEPT !.buffer_lock = c,
                        !.buffer = memcpy_and_pad(hb.buffer, MAX_REPORT_LENGTH, loc[c].cmd,
                                                  ReportSize(loc[c].cmd), 0)]
    /\ pc' = [pc EXCEPT ![c] = "x_send"]
    /\ UNCHANGED <<rgb, g3, sd, kind, loc, now, nops, nrep, wire, lastRep, expired, hp, k3>>

\* hid_hw_output_report(priv->hdev, priv->buffer, MAX_REPORT_LENGTH) and
\* mutex_unlock(&priv->buffer_lock)
hanbo_hid_write_expanded_send(c) ==
    /\ Running("hanbo")
    /\ pc[c] = "x_send"
    /\ hb' = [hb EXCEPT !.buffer_lock = 0]
    /\ \E r \in {MAX_REPORT_LENGTH, -EPIPE} :
          /\ wire' = IF r > 0
                     THEN [NoWire EXCEPT
                             !.by = c, !.buf = hb.buffer,
                             !.want = memcpy_and_pad(Zeros(MAX_REPORT_LENGTH),
                                                     MAX_REPORT_LENGTH, loc[c].cmd,
                                                     ReportSize(loc[c].cmd), 0),
                             !.seq = hb.buffer[0], !.waits = TRUE,
                             !.armed = loc[c].rearmed]
                     ELSE wire
          /\ loc' = [loc EXCEPT ![c].ret = r,
                                ![c].deadline = now + msecs_to_jiffies(STATUS_VALIDITY_MS)]
          /\ pc' = [pc EXCEPT ![c] = HbAfterWrite(c, r)]
    /\ UNCHANGED <<rgb, g3, sd, kind, now, nops, nrep, lastRep, expired, hp, k3>>

(***************************************************************************)
(* hanbo_hwmon_read / hanbo_hid_get_status                                 *)
(***************************************************************************)
hanbo_hwmon_read(c) ==
    /\ Running("hanbo")
    /\ pc[c] = "idle"
    /\ nops < MaxOps
    /\ nops' = nops + 1
    /\ loc' = [loc EXCEPT ![c] = [LocInit EXCEPT !.op = "read"]]
    /\ pc' = [pc EXCEPT ![c] = "g_lock"]
    /\ UNCHANGED <<rgb, g3, sd, kind, now, nrep, wire, lastRep, expired, hp, hb, k3>>

\* mutex_lock_interruptible(&priv->status_report_request_mutex), the
\* freshness test and the first reinit_completion
hanbo_hid_get_status_lock(c) ==
    /\ Running("hanbo")
    /\ pc[c] = "g_lock"
    /\ IF ~mutex_is_free(hb.status_report_request_mutex)
       THEN /\ loc' = [loc EXCEPT ![c].ret = -EINTR]
            /\ pc' = [pc EXCEPT ![c] = "returned"]
            /\ hb' = hb
       ELSE IF ~time_after(now, hb.updated + msecs_to_jiffies(STATUS_VALIDITY_MS))
       THEN /\ hb' = [hb EXCEPT !.status_report_request_mutex = c]
            /\ loc' = [loc EXCEPT ![c].ret = 0, ![c].snap = HbSensors(hb)]
            /\ pc' = [pc EXCEPT ![c] = "g_out"]
       ELSE /\ hb' = [hb EXCEPT !.status_report_request_mutex = c,
                                !.status_report_received = reinit_completion(@)]
            /\ loc' = [loc EXCEPT ![c].snap = HbSensors(hb), ![c].refreshed = TRUE,
                                  ![c].rearmed = ~completion_done(
                                      reinit_completion(hb.status_report_received)),
                                  ![c].tcaller = "fan",
                                  ![c].cmd = get_fan_status_cmd]
            /\ pc' = [pc EXCEPT ![c] = "x_fill"]
    /\ UNCHANGED <<rgb, g3, sd, kind, now, nops, nrep, wire, lastRep, expired, hp, k3>>

\* the three results of wait_for_completion_interruptible_timeout with 0
\* already turned into -ETIMEDOUT
HbWaitResults(c) ==
    IF completion_done(hb.status_report_received) THEN {1}
    ELSE {-ERESTARTSYS} \cup (IF now >= loc[c].deadline THEN {-ETIMEDOUT} ELSE {})

\* the wait for the fan status report, the second reinit_completion and the
\* arguments of the pump status request
hanbo_hid_get_status_wait_fan(c) ==
    /\ Running("hanbo")
    /\ pc[c] = "g_fan_wait"
    /\ \E r \in HbWaitResults(c) :
          loc' = [loc EXCEPT ![c].fanret = r, ![c].ret = r, ![c].rel = lastRep,
                             ![c].rearmed = ~completion_done(
                                 reinit_completion(hb.status_report_received)),
                             ![c].tcaller = "pump", ![c].cmd = get_pump_status_cmd]
    /\ hb' = [hb EXCEPT !.status_report_received = reinit_completion(@)]
    /\ wire' = NoWire
    /\ pc' = [pc EXCEPT ![c] = "x_fill"]
    /\ UNCHANGED <<rgb, g3, sd, kind, now, nops, nrep, lastRep, expired, hp, k3>>

hanbo_hid_get_status_wait_pump(c) ==
    /\ Running("hanbo")
    /\ pc[c] = "g_pump_wait"
    /\ \E r \in HbWaitResults(c) :
          loc' = [loc EXCEPT ![c].ret = r, ![c].rel = lastRep, ![c].rearmed = FALSE]
    /\ hb' = [hb EXCEPT !.status_report_received =
                            IF completion_done(@) THEN wait_consume(@) ELSE @]
    /\ wire' = NoWire
    /\ pc' = [pc EXCEPT ![c] = "g_out"]
    /\ UNCHANGED <<rgb, g3, sd, kind, now, nops, nrep, lastRep, expired, hp, k3>>

\* unlock_and_return of hanbo_hid_get_status
hanbo_hid_get_status_out(c) ==
    /\ Running("hanbo")
    /\ pc[c] = "g_out"
    /\ hb' = [hb EXCEPT !.status_report_request_mutex = 0,
                        !.status_report_received =
                            IF loc[c].ret < 0 /\ ~completion_done(@)
                            THEN complete_all(@) ELSE @]
    /\ pc' = [pc EXCEPT ![c] = "hr_switch"]
    /\ UNCHANGED <<rgb, g3, sd, kind, loc, now, nops, nrep, wire, lastRep, expired, hp, k3>>

\* the attributes read in the model: coolant temperature, fan speed, the
\* pump profile, and a sensor type the driver does not have
HbReadInputs ==
    {<<"hwmon_temp", 0>>, <<"hwmon_fan", FAN_CHANNEL>>,
     <<"hwmon_pwm_enable", PUMP_CHANNEL>>, <<"hwmon_in", 0>>}

HbReadValue(h, type, channel) ==
    CASE type = "hwmon_temp" -> h.temp_input[channel]
      [] type = "hwmon_fan" -> h.channel_info[channel].tacho
      [] type = "hwmon_pwm_input" -> h.channel_info[channel].attained_pwm % 256
      [] type = "hwmon_pwm_enable" -> h.channel_info[channel].active_profile
      [] OTHER -> 0

\* hanbo_hwmon_read after hanbo_hid_get_status has returned: the error, or
\* the switch on the attribute the caller asked for
hanbo_hwmon_read_switch(c) ==
    /\ kind = "hanbo"
    /\ pc[c] = "hr_switch"
    /\ \E in \in HbReadInputs :
          loc' = [loc EXCEPT
                    ![c].type = in[1],
                    ![c].channel = in[2],
                    ![c].ret = IF loc[c].ret < 0 THEN loc[c].ret
                               ELSE IF in[1] = "hwmon_in" THEN -EOPNOTSUPP ELSE 0,
                    ![c].val = IF loc[c].ret < 0 \/ in[1] = "hwmon_in" THEN 0
                               ELSE HbReadValue(hb, in[1], in[2])]
    /\ pc' = [pc EXCEPT ![c] = "returned"]
    /\ UNCHANGED <<rgb, g3, sd, kind, now, nops, nrep, wire, lastRep, expired, hp, hb, k3>>

(***************************************************************************)
(* hanbo_hwmon_write / hanbo_hid_profile_send                              *)
(***************************************************************************)
HbWriteInputs ==
    {<<"hwmon_temp", FAN_CHANNEL, 45400>>, <<"hwmon_pwm_enable", FAN_CHANNEL, 2>>,
     <<"hwmon_pwm_enable", PUMP_CHANNEL, 4>>, <<"hwmon_pwm_enable", PUMP_CHANNEL, 9>>,
     <<"hwmon_pwm_enable", PUMP_CHANNEL, 257>>}

hanbo_hwmon_write(c) ==
    /\ Running("hanbo")
    /\ pc[c] = "idle"
    /\ nops < MaxOps
    /\ nops' = nops + 1
    /\ loc' = [loc EXCEPT ![c] = [LocInit EXCEPT !.op = "write"]]
    /\ pc' = [pc EXCEPT ![c] = "hw_lock"]
    /\ UNCHANGED <<rgb, g3, sd, kind, now, nrep, wire, lastRep, expired, hp, hb, k3>>

\* the command hanbo_hid_profile_send builds for a curve profile
HbCurveCmd(h, channel) ==
    LET base == IF channel = FAN_CHANNEL
                THEN [set_pump_fan_curve_cmd_template EXCEPT ![0] = 200, ![2] = 0]
                ELSE set_pump_fan_curve_cmd_template
    IN [i \in 0..(SET_CURVE_CMD_LENGTH - 1) |->
           IF i >= CURVE_PAYLOAD_OFFSET
           THEN h.channel_info[channel].pwm_points[i - CURVE_PAYLOAD_OFFSET]
           ELSE base[i]]

\* fault model: a sanity check that lets every curve pass
HbCurveNeverDecreases(cmd) == FALSE

\* the curve is refused when a duty is lower than the one before it
HbCurveDecreases(cmd) ==
    \E i \in CURVE_PAYLOAD_OFFSET..(SET_CURVE_CMD_LENGTH - 2) : cmd[i + 1] < cmd[i]

\* the command hanbo_hid_profile_send builds for a fixed profile
HbProfileCmd(channel, profile) ==
    LET base == IF channel = FAN_CHANNEL
                THEN [set_pump_fan_cmd_template EXCEPT ![0] = 34]
                ELSE set_pump_fan_cmd_template
    IN [base EXCEPT ![SET_PROFILE_ID_OFFSET] = profile,
                    ![SET_PROFILE_PWM_OFFSET] = profile_base_duties[profile]]

\* the clamped reference temperature, in degrees
HbDegrees(val) ==
    IF val < 0 THEN 0
    ELSE Min(DIV_ROUND_CLOSEST(val, 1000), TEMPERATURE_MAX)

\* mutex_lock_interruptible, reinit_completion, and the command built from
\* the attribute and value written
hanbo_hwmon_write_lock(c) ==
    /\ Running("hanbo")
    /\ pc[c] = "hw_lock"
    /\ IF ~mutex_is_free(hb.status_report_request_mutex)
       THEN /\ loc' = [loc EXCEPT ![c].ret = -EINTR]
            /\ pc' = [pc EXCEPT ![c] = "returned"]
            /\ hb' = hb
       ELSE /\ hb' = [hb EXCEPT !.status_report_request_mutex = c,
                                !.status_report_received = reinit_completion(@)]
            /\ \E in \in HbWriteInputs :
               LET type == in[1]
                   channel == in[2]
                   profile == in[3] % 256
                   args == [loc[c] EXCEPT !.type = type, !.channel = channel,
                                          !.val = in[3],
                                          !.rearmed = ~completion_done(
                                              reinit_completion(hb.status_report_received))]
               IN IF type = "hwmon_temp"
                  THEN /\ loc' = [loc EXCEPT ![c] =
                                    [args EXCEPT
                                       !.tcaller = "w_temp",
                                       !.cmd = [set_vcpu_temp_cmd_template EXCEPT
                                                  ![SET_CPU_TEMP_PAYLOAD_OFFSET] =
                                                      HbDegrees(in[3]) % 256]]]
                       /\ pc' = [pc EXCEPT ![c] = "x_fill"]
                  ELSE IF profile < QUIET_PROFILE_ID \/ profile > CURVE_PROFILE_ID
                  THEN /\ loc' = [loc EXCEPT ![c] = [args EXCEPT !.ret = -EINVAL]]
                       /\ pc' = [pc EXCEPT ![c] = "hw_out"]
                  ELSE IF profile = CURVE_PROFILE_ID
                  THEN IF HbCurveDecreases(HbCurveCmd(hb, channel))
                       THEN /\ loc' = [loc EXCEPT ![c] = [args EXCEPT !.ret = -EINVAL,
                                                                     !.old = hb.channel_info]]
                            /\ pc' = [pc EXCEPT ![c] = "hw_out"]
                       ELSE /\ loc' = [loc EXCEPT ![c] =
                                         [args EXCEPT !.tcaller = "w_curve",
                                                      !.cmd = HbCurveCmd(hb, channel),
                                                      !.old = hb.channel_info]]
                            /\ pc' = [pc EXCEPT ![c] = "x_fill"]
                  ELSE /\ loc' = [loc EXCEPT ![c] =
                                    [args EXCEPT !.tcaller = "w_profile",
                                                 !.cmd = HbProfileCmd(channel, profile)]]
                       /\ pc' = [pc EXCEPT ![c] = "x_fill"]
    /\ UNCHANGED <<rgb, g3, sd, kind, now, nops, nrep, wire, lastRep, expired, hp, k3>>

\* what follows hanbo_hid_write_expanded in hanbo_hwmon_write and
\* hanbo_hid_profile_send: the value kept for later reads
hanbo_hwmon_write_store(c) ==
    /\ Running("hanbo")
    /\ pc[c] = "hw_store"
    /\ LET ch == loc[c].channel
           r == loc[c].ret
       IN hb' = CASE loc[c].tcaller = "w_temp" ->
                       IF r < 0 THEN hb
                       ELSE [hb EXCEPT !.temp_input[1] = HbDegrees(loc[c].val) * 1000]
                  [] loc[c].tcaller = "w_curve" ->
                       [hb EXCEPT !.channel_info[ch].profile_sticky = TRUE,
                                  !.channel_info[ch].active_profile =
                                      IF r >= 0 THEN loc[c].val % 256 ELSE @]
                  [] OTHER ->
                       [hb EXCEPT !.channel_info[ch].profile_sticky = FALSE,
                                  !.channel_info[ch].active_profile =
                                      IF r >= 0 THEN loc[c].val % 256 ELSE @]
    /\ pc' = [pc EXCEPT ![c] = "hw_out"]
    /\ UNCHANGED <<rgb, g3, sd, kind, loc, now, nops, nrep, wire, lastRep, expired, hp, k3>>

DUTY_CYCLE_MIN == 20
DUTY_CYCLE_MAX == 100

\* the curve points stored in the model: <<nr, index, val>>
HbStoreInputs == {<<PUMP_CHANNEL, 0, 90>>, <<FAN_CHANNEL, 8, 500>>}

\* hanbo_fan_curve_pwm_store: the clamped duty goes into the stored curve;
\* the driver takes no lock and returns count (1 stands for it)
hanbo_fan_curve_pwm_store(c) ==
    /\ Running("hanbo")
    /\ pc[c] = "idle"
    /\ nops < MaxOps
    /\ nops' = nops + 1
    /\ \E in \in HbStoreInputs :
          LET val == clamp_val(in[3], DUTY_CYCLE_MIN, DUTY_CYCLE_MAX)
          IN /\ hb' = [hb EXCEPT !.channel_info[in[1]].pwm_points[in[2]] = val % 256]
             /\ loc' = [loc EXCEPT ![c] = [LocInit EXCEPT !.op = "store", !.channel = in[1],
                                                         !.val = in[3], !.ret = 1]]
    /\ pc' = [pc EXCEPT ![c] = "returned"]
    /\ UNCHANGED <<rgb, g3, sd, kind, now, nrep, wire, lastRep, expired, hp, k3>>

\* unlock_and_return of hanbo_hwmon_write
hanbo_hwmon_write_out(c) ==
    /\ Running("hanbo")
    /\ pc[c] = "hw_out"
    /\ hb' = [hb EXCEPT !.status_report_request_mutex = 0,
                        !.status_report_received =
                            IF loc[c].ret < 0 /\ ~completion_done(@)
                            THEN complete_all(@) ELSE @]
    /\ loc' = [loc EXCEPT ![c].ret = IF loc[c].ret > 0 THEN 0 ELSE loc[c].ret,
                          ![c].rearmed = FALSE]
    /\ pc' = [pc EXCEPT ![c] = "returned"]
    /\ wire' = NoWire
    /\ UNCHANGED <<rgb, g3, sd, kind, now, nops, nrep, lastRep, expired, hp, k3>>

(***************************************************************************)
(* NZXT Kraken X53 / Z53 (nzxt-kraken3.c)                                  *)
(***************************************************************************)
STATUS_REPORT_ID == 117
FIRMWARE_REPORT_ID == 17
STATUS_INTERVAL == 1
K3_STATUS_VALIDITY == 4 * STATUS_INTERVAL
K3_CUSTOM_CURVE_POINTS == 40
X53_TEMP_SENSOR_START_OFFSET == 15
X53_TEMP_SENSOR_END_OFFSET == 16
X53_PUMP_SPEED_OFFSET == 17
X53_PUMP_DUTY_OFFSET == 19
X53_FIRMWARE_VERSION_OFFSET == 17
Z53_FAN_SPEED_OFFSET == 23
Z53_FAN_DUTY_OFFSET == 25
X53_SET_PUMP_DUTY_ID_OFFSET == 1
X53_SET_PUMP_DUTY_MIN == 20
X53_SET_PUMP_DUTY_MAX == 100
X53_GET_FW_VERSION_CMD_LENGTH == 2
X53_MAX_REPORT_LENGTH == 64
X53_MIN_REPORT_LENGTH == 20
X53_SET_PUMP_DUTY_CMD_HEADER_LENGTH == 4
X53_SET_PUMP_DUTY_CMD_LENGTH == 4 + 40
Z53_GET_STATUS_CMD_LENGTH == 2

x53_get_fw_version_cmd == Bytes(<<16, 1>>)
x53_set_pump_duty_cmd_header == Bytes(<<114, 0, 0, 0>>)
z53_get_status_cmd == Bytes(<<116, 1>>)

K3Kinds == {"x53", "z53"}

\* the driver state once kraken3_probe has returned 0
K3Init(k) ==
    [kind |-> k,
     buffer_lock |-> 0,
     fw_version_processed |-> 0,
     z53_status_processed |-> 0,
     buffer |-> memcpy(Zeros(X53_MAX_REPORT_LENGTH), 0, Bytes(<<112, 1>>), 2),
     pump_curve |-> Zeros(K3_CUSTOM_CURVE_POINTS),
     fan_curve |-> Zeros(K3_CUSTOM_CURVE_POINTS),
     temp_input |-> [i \in 0..0 |-> 0],
     fan_input |-> [i \in 0..3 |-> 0],
     firmware_version |-> [i \in 0..2 |-> 0],
     updated |-> 0 - (K3_STATUS_VALIDITY * HZ)]

\* kraken3_pwm_to_percent: the duty in percent, or -EINVAL
kraken3_pwm_to_percent(val) ==
    IF val < 0 \/ val > 255 THEN -EINVAL
    ELSE LET percent_value == DIV_ROUND_CLOSEST(val * 100, 255)
         IN IF percent_value < X53_SET_PUMP_DUTY_MIN \/ percent_value > X53_SET_PUMP_DUTY_MAX
            THEN -EINVAL
            ELSE percent_value

\* the command kraken3_write_curve builds from a curve
K3CurveCmd(curve_array, channel) ==
    [i \in 0..(X53_SET_PUMP_DUTY_CMD_LENGTH - 1) |->
        IF i >= X53_SET_PUMP_DUTY_CMD_HEADER_LENGTH
        THEN curve_array[i - X53_SET_PUMP_DUTY_CMD_HEADER_LENGTH]
        ELSE IF i = X53_SET_PUMP_DUTY_ID_OFFSET THEN (IF channel = 0 THEN 1 ELSE 2)
        ELSE x53_set_pump_duty_cmd_header[i]]

\* fault model: a fill that treats the last point like the others
K3FixedCurveFlat(percent_value) ==
    [i \in 0..(K3_CUSTOM_CURVE_POINTS - 1) |-> percent_value]

\* the curve kraken3_write fills for a fixed duty
K3FixedCurve(percent_value) ==
    [i \in 0..(K3_CUSTOM_CURVE_POINTS - 1) |->
        IF i = K3_CUSTOM_CURVE_POINTS - 1 THEN 100 ELSE percent_value]

\* the 64 bytes kraken3_write_expanded puts in priv->buffer
K3Expand(buf, cmd) ==
    memcpy(memset(buf, 0, 0, X53_MAX_REPORT_LENGTH), 0, cmd, ReportSize(cmd))

(***************************************************************************)
(* Reports the Kraken can send.                                            *)
(***************************************************************************)
K3MkReport(f) ==
    [i \in 0..(X53_MAX_REPORT_LENGTH - 1) |-> IF i \in DOMAIN f THEN f[i] ELSE 0]

K3StatusA ==
    K3MkReport((0 :> STATUS_REPORT_ID) @@ (15 :> 29) @@ (16 :> 4) @@ (17 :> 176) @@
               (18 :> 4) @@ (19 :> 60) @@ (23 :> 32) @@ (24 :> 3) @@ (25 :> 40))

K3StatusB ==
    K3MkReport((0 :> STATUS_REPORT_ID) @@ (15 :> 31) @@ (16 :> 7) @@ (17 :> 8) @@
               (18 :> 7) @@ (19 :> 80) @@ (23 :> 132) @@ (24 :> 3) @@ (25 :> 55))

\* a status report of a damaged device: both temperature bytes are 0xff
K3StatusDamaged ==
    [K3StatusA EXCEPT ![X53_TEMP_SENSOR_START_OFFSET] = 255,
                      ![X53_TEMP_SENSOR_END_OFFSET] = 255]

K3Firmware ==
    K3MkReport((0 :> FIRMWARE_REPORT_ID) @@ (17 :> 2) @@ (18 :> 1) @@ (19 :> 0))

K3ShortSizes == {10}

\* whether kraken3_raw_event stores the status report
K3Accepts(data, size) ==
    /\ size >= X53_MIN_REPORT_LENGTH
    /\ data[0] = STATUS_REPORT_ID
    /\ ~(data[X53_TEMP_SENSOR_START_OFFSET] = 255 /\ data[X53_TEMP_SENSOR_END_OFFSET] = 255)

\* What the device side can deliver: the answer to the oldest request not
\* yet answered (wire.owed), well-formed, damaged or undersized, or a status
\* report nobody asked for (the periodic report of the X53, or the answer to
\* other software sharing the device).
K3Answer(cmd) ==
    CASE cmd = z53_get_status_cmd[0] ->
             {K3StatusA, K3StatusDamaged} \cup
             {HpTruncate(K3StatusA, n) : n \in K3ShortSizes}
      [] cmd = x53_get_fw_version_cmd[0] -> {K3Firmware}
      [] OTHER -> {}

K3Deliveries ==
    (IF wire.owed # <<>> THEN {<<"answer", d>> : d \in K3Answer(Head(wire.owed))} ELSE {})
    \cup {<<"unsolicited", K3StatusB>>}

kraken3_raw_event ==
    /\ Running("kraken3")
    /\ nrep < MaxReports
    /\ nrep' = nrep + 1
    /\ \E d \in K3Deliveries :
          LET data == d[2]
              size == ReportSize(data)
          IN /\ lastRep' = [lastRep EXCEPT
                               !.tag = data[0], !.size = size,
                               !.crcok = d[1] = "answer" /\ K3Accepts(data, size),
                               !.inflight = wire.waits,
                               !.seen[0] = IF K3Accepts(data, size) THEN now ELSE @]
             /\ wire' = IF d[1] = "answer"
                        THEN [wire EXCEPT !.owed = Tail(@),
                                          !.answered = IF K3Accepts(data, size)
                                                       THEN @ + 1 ELSE @]
                        ELSE [wire EXCEPT !.unsolicited = @ + 1]
             /\ k3' = IF size < X53_MIN_REPORT_LENGTH THEN k3
                      ELSE IF data[0] = FIRMWARE_REPORT_ID
                      THEN [k3 EXCEPT
                              !.firmware_version =
                                  [i \in 0..2 |-> data[X53_FIRMWARE_VERSION_OFFSET + i]],
                              !.fw_version_processed = complete(@)]
                      ELSE IF ~K3Accepts(data, size) THEN k3
                      ELSE [k3 EXCEPT
                              !.temp_input[0] =
                                  (data[X53_TEMP_SENSOR_START_OFFSET] * 1000) +
                                  (data[X53_TEMP_SENSOR_END_OFFSET] * 100),
                              !.fan_input =
                                  [i \in 0..3 |->
                                     CASE i = 0 -> get_unaligned_le16(data, X53_PUMP_SPEED_OFFSET)
                                       [] i = 1 -> data[X53_PUMP_DUTY_OFFSET]
                                       [] i = 2 -> IF k3.kind = "z53"
                                                   THEN get_unaligned_le16(data, Z53_FAN_SPEED_OFFSET)
                                                   ELSE k3.fan_input[2]
                                       [] OTHER -> IF k3.kind = "z53"
                                                   THEN data[Z53_FAN_DUTY_OFFSET]
                                                   ELSE k3.fan_input[3]],
                              !.z53_status_processed =
                                  IF k3.kind = "z53" THEN complete(@) ELSE @,
                              !.updated = now]
    /\ UNCHANGED <<rgb, g3, sd, kind, pc, loc, now, nops, expired, hp, hb>>

(***************************************************************************)
(* kraken3_write_expanded                                                  *)
(***************************************************************************)
\* where kraken3_write_expanded returns to
K3AfterWrite(c, r) ==
    CASE loc[c].tcaller = "status" -> IF r < 0 THEN "returned" ELSE "k_wait"
      [] loc[c].tcaller = "firmware" -> IF r < 0 THEN "returned" ELSE "f_wait"
      [] OTHER -> "returned"

\* what the caller of kraken3_write_expanded makes of its result
K3WriteResult(c, r) ==
    CASE loc[c].tcaller \in {"status", "store"} -> r
      [] loc[c].tcaller = "firmware" -> IF r < 0 THEN -ENODATA ELSE r
      [] OTHER -> IF r < 0 THEN r ELSE 0

\* mutex_lock(&priv->buffer_lock), memset and memcpy into priv->buffer
kraken3_write_expanded_fill(c) ==
    /\ Running("kraken3")
    /\ pc[c] = "kx_fill"
    /\ mutex_is_free(k3.buffer_lock)
    /\ k3' = [k3 EXCEPT !.buffer_lock = c, !.buffer = K3Expand(k3.buffer, loc[c].cmd)]
    /\ pc' = [pc EXCEPT ![c] = "kx_send"]
    /\ UNCHANGED <<rgb, g3, sd, kind, loc, now, nops, nrep, wire, lastRep, expired, hp, hb>>

\* hid_hw_output_report(priv->hdev, priv->buffer, X53_MAX_REPORT_LENGTH) and
\* mutex_unlock(&priv->buffer_lock)
kraken3_write_expanded_send(c) ==
    /\ Running("kraken3")
    /\ pc[c] = "kx_send"
    /\ k3' = [k3 EXCEPT !.buffer_lock = 0]
    /\ \E r \in {X53_MAX_REPORT_LENGTH, -EPIPE} :
          /\ wire' = IF r > 0
                     THEN [wire EXCEPT
                             !.by = c, !.buf = k3.buffer,
                             !.want = K3Expand(Zeros(X53_MAX_REPORT_LENGTH), loc[c].cmd),
                             !.seq = k3.buffer[0],
                             !.waits = loc[c].tcaller \in {"status", "firmware"},
                             !.armed = loc[c].rearmed,
                             !.owed = IF loc[c].tcaller \in {"status", "firmware"}
                                      THEN Append(@, k3.buffer[0]) ELSE @]
                     ELSE [wire EXCEPT !.failed = @ + 1]
          /\ loc' = [loc EXCEPT ![c].ret = K3WriteResult(c, r)]
          /\ pc' = [pc EXCEPT ![c] = K3AfterWrite(c, r)]
    /\ UNCHANGED <<rgb, g3, sd, kind, now, nops, nrep, lastRep, expired, hp, hb>>

(***************************************************************************)
(* kraken3_read                                                            *)
(***************************************************************************)
\* entry of kraken3_read: on a Z53, reinit_completion(&priv->z53_status_processed)
\* and the status request; on an X53 straight to the staleness test
kraken3_read(c) ==
    /\ Running("kraken3")
    /\ pc[c] = "idle"
    /\ nops < MaxOps
    /\ nops' = nops + 1
    /\ IF k3.kind = "z53"
       THEN /\ k3' = [k3 EXCEPT !.z53_status_processed = reinit_completion(@)]
            /\ loc' = [loc EXCEPT ![c] = [LocInit EXCEPT !.op = "read",
                                                        !.rearmed = ~completion_done(
                                                            reinit_completion(
                                                                k3.z53_status_processed)),
                                                        !.refreshed = TRUE,
                                                        !.tcaller = "status",
                                                        !.cmd = z53_get_status_cmd]]
            /\ pc' = [pc EXCEPT ![c] = "kx_fill"]
       ELSE /\ k3' = k3
            /\ loc' = [loc EXCEPT ![c] = [LocInit EXCEPT !.op = "read"]]
            /\ pc' = [pc EXCEPT ![c] = "k_check"]
    /\ UNCHANGED <<rgb, g3, sd, kind, now, nrep, wire, lastRep, expired, hp, hb>>

\* wait_for_completion(&priv->z53_status_processed): no timeout, not
\* interruptible
kraken3_read_wait(c) ==
    /\ Running("kraken3")
    /\ pc[c] = "k_wait"
    /\ completion_done(k3.z53_status_processed)
    /\ k3' = [k3 EXCEPT !.z53_status_processed = wait_consume(@)]
    /\ wire' = [wire EXCEPT !.waits = FALSE]
    /\ loc' = [loc EXCEPT ![c].rearmed = FALSE]
    /\ pc' = [pc EXCEPT ![c] = "k_check"]
    /\ UNCHANGED <<rgb, g3, sd, kind, now, nops, nrep, lastRep, expired, hp, hb>>

\* the sensors read in the model: coolant temperature, pump speed, fan duty,
\* and a sensor type the driver does not report
K3ReadInputs == {<<"hwmon_temp", 0>>, <<"hwmon_fan", 0>>, <<"hwmon_fan", 3>>, <<"hwmon_pwm", 0>>}

\* the staleness test and the switch on the sensor type
kraken3_read_check(c) ==
    /\ kind = "kraken3"
    /\ pc[c] = "k_check"
    /\ \E in \in K3ReadInputs :
          loc' = [loc EXCEPT
                    ![c].type = in[1],
                    ![c].channel = in[2],
                    ![c].ret = IF time_after(now, k3.updated + (K3_STATUS_VALIDITY * HZ))
                               THEN -ENODATA
                               ELSE IF in[1] = "hwmon_pwm" THEN -EOPNOTSUPP ELSE 0,
                    ![c].val = IF time_after(now, k3.updated + (K3_STATUS_VALIDITY * HZ))
                               THEN 0
                               ELSE IF in[1] = "hwmon_temp" THEN k3.temp_input[in[2]]
                               ELSE IF in[1] = "hwmon_fan" THEN k3.fan_input[in[2]]
                               ELSE 0]
    /\ pc' = [pc EXCEPT ![c] = "returned"]
    /\ UNCHANGED <<rgb, g3, sd, kind, now, nops, nrep, wire, lastRep, expired, hp, hb, k3>>

(***************************************************************************)
(* kraken3_write / kraken3_write_curve                                     *)
(***************************************************************************)
K3WriteInputs == {<<"hwmon_pwm", 0, 128>>, <<"hwmon_pwm", 1, 10>>, <<"hwmon_fan", 0, 0>>}

kraken3_write(c) ==
    /\ Running("kraken3")
    /\ pc[c] = "idle"
    /\ nops < MaxOps
    /\ nops' = nops + 1
    /\ \E in \in K3WriteInputs :
       LET percent_value == kraken3_pwm_to_percent(in[3])
           args == [LocInit EXCEPT !.op = "write", !.type = in[1], !.channel = in[2],
                                   !.val = in[3]]
       IN IF in[1] # "hwmon_pwm"
          THEN /\ loc' = [loc EXCEPT ![c] = [args EXCEPT !.ret = -EOPNOTSUPP]]
               /\ pc' = [pc EXCEPT ![c] = "returned"]
          ELSE IF percent_value < 0
          THEN /\ loc' = [loc EXCEPT ![c] = [args EXCEPT !.ret = percent_value]]
               /\ pc' = [pc EXCEPT ![c] = "returned"]
          ELSE /\ loc' = [loc EXCEPT ![c] =
                            [args EXCEPT !.tcaller = "write",
                                         !.cmd = K3CurveCmd(K3FixedCurve(percent_value),
                                                            in[2])]]
               /\ pc' = [pc EXCEPT ![c] = "kx_fill"]
    /\ UNCHANGED <<rgb, g3, sd, kind, now, nrep, wire, lastRep, expired, hp, hb, k3>>

\* the curve points stored in the model: <<nr, index, val>> with nr = 0 for
\* the pump curve and 1 for the fan curve
K3StoreInputs == {<<0, 0, 128>>, <<0, 39, 10>>, <<0, 3, 300>>, <<1, 5, 64>>}

\* kraken3_curve_props_are_visible: only the Z53 has the fan curve
K3StoreVisible(kd, nr) == nr = 0 \/ kd = "z53"

\* what kraken3_fan_curve_pwm_store returns before it converts val
K3StoreRejects(val) == IF val < 0 \/ val > 255 THEN -EINVAL ELSE 0

\* kraken3_fan_curve_pwm_store up to the call of kraken3_write_expanded: the
\* result of kraken3_pwm_to_percent goes into the u8 point as it is
kraken3_fan_curve_pwm_store(c) ==
    /\ Running("kraken3")
    /\ pc[c] = "idle"
    /\ nops < MaxOps
    /\ nops' = nops + 1
    /\ \E in \in {x \in K3StoreInputs : K3StoreVisible(k3.kind, x[1])} :
       LET nr == in[1]
           index == in[2]
           val == kraken3_pwm_to_percent(in[3])
           args == [LocInit EXCEPT !.op = "store", !.channel = nr, !.val = in[3],
                                   !.old = <<k3.pump_curve, k3.fan_curve>>]
           curve_array == IF nr = 0 THEN [k3.pump_curve EXCEPT ![index] = U8(val)]
                          ELSE [k3.fan_curve EXCEPT ![index] = U8(val)]
       IN IF K3StoreRejects(in[3]) < 0
          THEN /\ k3' = k3
               /\ loc' = [loc EXCEPT ![c] = [args EXCEPT !.ret = K3StoreRejects(in[3])]]
               /\ pc' = [pc EXCEPT ![c] = "returned"]
          ELSE /\ k3' = IF nr = 0 THEN [k3 EXCEPT !.pump_curve = curve_array]
                        ELSE [k3 EXCEPT !.fan_curve = curve_array]
               /\ loc' = [loc EXCEPT ![c] = [args EXCEPT !.tcaller = "store",
                                                        !.cmd = K3CurveCmd(curve_array, nr)]]
               /\ pc' = [pc EXCEPT ![c] = "kx_fill"]
    /\ UNCHANGED <<rgb, g3, sd, kind, now, nrep, wire, lastRep, expired, hp, hb>>

(***************************************************************************)
(* firmware_version_show (debugfs)                                         *)
(***************************************************************************)
\* reinit_completion(&priv->fw_version_processed) and the version request
firmware_version_show(c) ==
    /\ Running("kraken3")
    /\ pc[c] = "idle"
    /\ \A r \in Callers : pc[r] \notin {"rm_hwmon", "rm_close"}
    /\ nops < MaxOps
    /\ nops' = nops + 1
    /\ k3' = [k3 EXCEPT !.fw_version_processed = reinit_completion(@)]
    /\ loc' = [loc EXCEPT ![c] = [LocInit EXCEPT !.op = "firmware",
                                                !.rearmed = ~completion_done(
                                                    reinit_completion(
                                                        k3.fw_version_processed)),
                                                !.tcaller = "firmware",
                                                !.cmd = x53_get_fw_version_cmd]]
    /\ pc' = [pc EXCEPT ![c] = "kx_fill"]
    /\ UNCHANGED <<rgb, g3, sd, kind, now, nrep, wire, lastRep, expired, hp, hb>>

\* wait_for_completion(&priv->fw_version_processed) and seq_printf of the
\* three version bytes
firmware_version_show_wait(c) ==
    /\ Running("kraken3")
    /\ pc[c] = "f_wait"
    /\ completion_done(k3.fw_version_processed)
    /\ k3' = [k3 EXCEPT !.fw_version_processed = wait_consume(@)]
    /\ wire' = [wire EXCEPT !.waits = FALSE]
    /\ loc' = [loc EXCEPT ![c].ret = 0, ![c].val = k3.firmware_version,
                          ![c].rearmed = FALSE]
    /\ pc' = [pc EXCEPT ![c] = "returned"]
    /\ UNCHANGED <<rgb, g3, sd, kind, now, nops, nrep, lastRep, expired, hp, hb>>

(***************************************************************************)
(* NZXT Grid+ V3 and Smart Device (nzxt-grid3.c, nzxt-smartdevice.c).  The *)
(* device sends a status report per channel on its own; a read serves the  *)
(* last values stored by raw_event.                                        *)
(***************************************************************************)
G3_REPORT_STATUS == 4
G3_STATUS_VALIDITY == 3
G3_REPORT_CONFIG == 2
G3_CONFIG_FAN_PWM == 77
DC_FAN == 1
PWM_FAN == 2
SD_REPORT_STATUS == 4
SD_STATUS_VALIDITY == 3
SD_REPORT_CONFIG == 2
SD_CONFIG_FAN_PWM == 77
smartdevice_no_control == 0
smartdevice_dc_control == 1
smartdevice_pwm_control == 2

\* channels of the two products (the switch on id->product in probe)
NzChannelCounts == {3, 6}

\* a channel of the zeroed allocation
NzChannelZero ==
    [rpms |-> 0, centiamps |-> 0, centivolts |-> 0, pwm |-> 0, fan_type |-> 0,
     updated |-> 0]

\* the output report grid3_write_pwm_assume_locked leaves in priv->out
NzPwmReport(out, channel, val) ==
    [out EXCEPT ![0] = G3_REPORT_CONFIG, ![1] = G3_CONFIG_FAN_PWM, ![2] = channel,
                ![3] = 0, ![4] = (val * 100) \div 255]

\* history of the session, per channel: the duty cycle that the last write
\* which returned 0 asked for, and the jiffy of that write
NzNotWritten == [i \in 0..5 |-> [val |-> -1, at |-> -1]]

\* struct grid3_data once grid3_probe has returned 0 at jiffy t: every
\* channel stale by STATUS_VALIDITY and commanded to 40 percent.
\* status[channels] stands for the memory that follows the allocation.
G3Init(channels, t) ==
    [lock |-> 0,
     channels |-> channels,
     out |-> NzPwmReport(Zeros(8), channels - 1, (40 * 255) \div 100),
     status |-> [i \in 0..channels |->
                    IF i < channels
                    THEN [NzChannelZero EXCEPT
                             !.updated = t - (G3_STATUS_VALIDITY * HZ),
                             !.pwm = (40 * 255) \div 100]
                    ELSE NzChannelZero],
     written |-> NzNotWritten]

\* struct smartdevice_priv_data once smartdevice_probe has returned 0 at
\* jiffy t (fan_type holds the field the driver calls mode)
SdInit(cha_cnt, t) ==
    [lock |-> 0,
     channels |-> cha_cnt,
     out |-> NzPwmReport(Zeros(8), cha_cnt - 1, (40 * 255) \div 100),
     status |-> [i \in 0..cha_cnt |->
                    IF i < cha_cnt
                    THEN [NzChannelZero EXCEPT
                             !.updated = t - (SD_STATUS_VALIDITY * HZ),
                             !.pwm = (40 * 255) \div 100]
                    ELSE NzChannelZero],
     written |-> NzNotWritten]

\* a status report of 16 bytes: speed at 3..4, voltage at 7..8, current at
\* 9..10, channel and fan type in byte 15
NzMkStatus(channel, type, rpm, volts, amps) ==
    [i \in 0..15 |->
        CASE i = 0 -> G3_REPORT_STATUS
          [] i = 3 -> rpm \div 256
          [] i = 4 -> rpm % 256
          [] i = 7 -> volts \div 100
          [] i = 8 -> volts % 100
          [] i = 9 -> amps \div 100
          [] i = 10 -> amps % 100
          [] i = 15 -> (channel * 16) + type
          [] OTHER -> 0]

NzShortSizes == {15}

\* What the device side can deliver: the status of a channel with a PWM
\* fan, of a channel with no fan, of the channel index one past the last,
\* an undersized report, and a report with another ID.
NzDeliveries(channels) ==
    {NzMkStatus(0, PWM_FAN, 1200, 1196, 23),
     NzMkStatus(1, 0, 0, 1201, 0),
     NzMkStatus(channels, DC_FAN, 700, 900, 10),
     [NzMkStatus(0, DC_FAN, 900, 800, 15) EXCEPT ![0] = G3_REPORT_CONFIG]}
    \cup {HpTruncate(NzMkStatus(0, DC_FAN, 900, 800, 15), n) : n \in NzShortSizes}

\* whether the report is a status report that names a channel of the session
NzValidFor(channels, data, size) ==
    /\ size >= 16
    /\ data[0] = G3_REPORT_STATUS
    /\ data[15] \div 16 < channels

\* the record of the last delivery, with the jiffy at which a valid status
\* report was last received for each channel
NzLastRep(channels, data, size) ==
    [lastRep EXCEPT
        !.tag = data[0], !.size = size,
        !.crcok = NzValidFor(channels, data, size),
        !.seen = IF NzValidFor(channels, data, size)
                 THEN [@ EXCEPT ![data[15] \div 16] = now]
                 ELSE @]

grid3_raw_event ==
    /\ Running("grid3")
    /\ nrep < MaxReports
    /\ nrep' = nrep + 1
    /\ \E data \in NzDeliveries(g3.channels) :
          LET size == ReportSize(data)
              channel == data[15] \div 16
          IN /\ lastRep' = NzLastRep(g3.channels, data, size)
             /\ g3' = IF size < 16 \/ data[0] # G3_REPORT_STATUS THEN g3
                      ELSE IF channel > g3.channels THEN g3
                      ELSE [g3 EXCEPT
                              !.status[channel].rpms = get_unaligned_be16(data, 3),
                              !.status[channel].centiamps = (data[9] * 100) + data[10],
                              !.status[channel].centivolts = (data[7] * 100) + data[8],
                              !.status[channel].fan_type = data[15] % 4,
                              !.status[channel].updated = now]
    /\ UNCHANGED <<rgb, kind, pc, loc, now, nops, wire, expired, hp, hb, k3, sd>>

smartdevice_raw_event ==
    /\ Running("smartdevice")
    /\ nrep < MaxReports
    /\ nrep' = nrep + 1
    /\ \E data \in NzDeliveries(sd.channels) :
          LET size == ReportSize(data)
              channel == data[15] \div 16
          IN /\ lastRep' = NzLastRep(sd.channels, data, size)
             /\ sd' = IF size < 16 \/ data[0] # SD_REPORT_STATUS THEN sd
                      ELSE IF channel > sd.channels THEN sd
                      ELSE [sd EXCEPT
                              !.status[channel].rpms = get_unaligned_be16(data, 3),
                              !.status[channel].centiamps = (data[9] * 100) + data[10],
                              !.status[channel].centivolts = (data[7] * 100) + data[8],
                              !.status[channel].fan_type = data[15] % 4,
                              !.status[channel].updated = now]
    /\ UNCHANGED <<rgb, kind, pc, loc, now, nops, wire, expired, hp, hb, k3, g3>>

\* the attributes read in the model (visible for channel < channels)
NzReadInputs ==
    {<<"hwmon_fan", "hwmon_fan_input", 0>>, <<"hwmon_in", "hwmon_in_input", 1>>,
     <<"hwmon_curr", "hwmon_curr_input", 0>>, <<"hwmon_pwm", "hwmon_pwm_input", 0>>,
     <<"hwmon_pwm", "hwmon_pwm_mode", 1>>}

\* grid3_read_pwm: <<ret, val>>
grid3_read_pwm(st, attr) ==
    CASE attr = "hwmon_pwm_input" -> <<0, st.pwm>>
      [] attr = "hwmon_pwm_mode" -> <<0, IF st.fan_type # DC_FAN THEN 1 ELSE 0>>
      [] OTHER -> <<-EOPNOTSUPP, 0>>

\* grid3_read takes no lock and does not block: <<ret, val>> at jiffy t
grid3_read_value(st, type, attr, t) ==
    LET expires == st.updated + (G3_STATUS_VALIDITY * HZ)
    IN IF time_after(t, expires) THEN <<-ENODATA, 0>>
       ELSE CASE type = "hwmon_fan" -> <<0, st.rpms>>
              [] type = "hwmon_curr" -> <<0, st.centiamps * 10>>
              [] type = "hwmon_in" -> <<0, st.centivolts * 10>>
              [] type = "hwmon_pwm" -> grid3_read_pwm(st, attr)
              [] OTHER -> <<-EOPNOTSUPP, 0>>

grid3_read(c) ==
    /\ Running("grid3")
    /\ pc[c] = "idle"
    /\ nops < MaxOps
    /\ nops' = nops + 1
    /\ \E in \in NzReadInputs :
          LET r == grid3_read_value(g3.status[in[3]], in[1], in[2], now)
          IN loc' = [loc EXCEPT ![c] = [LocInit EXCEPT !.op = "read", !.type = in[1],
                                                      !.attr = in[2], !.channel = in[3],
                                                      !.ret = r[1], !.val = r[2]]]
    /\ pc' = [pc EXCEPT ![c] = "returned"]
    /\ UNCHANGED <<rgb, kind, now, nrep, wire, lastRep, expired, hp, hb, k3, g3, sd>>

\* smartdevice_read_pwm: <<ret, val>>; a mode outside the enumeration
\* leaves *val as the caller passed it (0 in the model)
smartdevice_read_pwm(st, attr) ==
    CASE attr = "hwmon_pwm_input" -> <<0, st.pwm>>
      [] attr = "hwmon_pwm_enable" ->
             <<0, IF st.fan_type = smartdevice_no_control THEN 0 ELSE 1>>
      [] attr = "hwmon_pwm_mode" ->
             (CASE st.fan_type = smartdevice_no_control -> <<-ENODATA, 0>>
                [] st.fan_type = smartdevice_dc_control -> <<0, 0>>
                [] st.fan_type = smartdevice_pwm_control -> <<0, 1>>
                [] OTHER -> <<0, 0>>)
      [] OTHER -> <<-EOPNOTSUPP, 0>>

smartdevice_read_value(st, type, attr, t) ==
    IF time_after(t, st.updated + (SD_STATUS_VALIDITY * HZ)) THEN <<-ENODATA, 0>>
    ELSE CASE type = "hwmon_fan" -> <<0, st.rpms>>
           [] type = "hwmon_curr" -> <<0, st.centiamps * 10>>
           [] type = "hwmon_in" -> <<0, st.centivolts * 10>>
           [] type = "hwmon_pwm" -> smartdevice_read_pwm(st, attr)
           [] OTHER -> <<-EOPNOTSUPP, 0>>

smartdevice_read(c) ==
    /\ Running("smartdevice")
    /\ pc[c] = "idle"
    /\ nops < MaxOps
    /\ nops' = nops + 1
    /\ \E in \in NzReadInputs :
          LET r == smartdevice_read_value(sd.status[in[3]], in[1], in[2], now)
          IN loc' = [loc EXCEPT ![c] = [LocInit EXCEPT !.op = "read", !.type = in[1],
                                                      !.attr = in[2], !.channel = in[3],
                                                      !.ret = r[1], !.val = r[2]]]
    /\ pc' = [pc EXCEPT ![c] = "returned"]
    /\ UNCHANGED <<rgb, kind, now, nrep, wire, lastRep, expired, hp, hb, k3, g3, sd>>

(***************************************************************************)
(* NZXT Grid+ V3 / Smart Device: writing a duty cycle.                     *)
(***************************************************************************)
\* what hid_hw_output_report may hand back for a report of len bytes: all
\* of it, a part of it, or a transport error
OutputReportResults(len) == {len, len - 2, -EPIPE}

\* the duty cycles written in the model (channel < channels)
NzWriteInputs ==
    {<<"hwmon_pwm_input", 0, 300>>, <<"hwmon_pwm_input", 1, 129>>,
     <<"hwmon_pwm_input", 0, -5>>}

\* grid3_write_pwm_input up to the call under the lock: a signal that
\* arrives while the lock is held by another caller ends the wait
grid3_write_pwm_input(c) ==
    /\ Running("grid3")
    /\ pc[c] = "idle"
    /\ nops < MaxOps
    /\ nops' = nops + 1
    /\ \E in \in NzWriteInputs :
          IF mutex_is_free(g3.lock)
          THEN /\ g3' = [g3 EXCEPT !.lock = c]
               /\ loc' = [loc EXCEPT ![c] = [LocInit EXCEPT !.op = "write", !.type = "hwmon_pwm",
                                                           !.attr = in[1], !.channel = in[2],
                                                           !.val = in[3]]]
               /\ pc' = [pc EXCEPT ![c] = "nw_send"]
          ELSE /\ g3' = g3
               /\ loc' = [loc EXCEPT ![c] = [LocInit EXCEPT !.op = "write", !.type = "hwmon_pwm",
                                                           !.attr = in[1], !.channel = in[2],
                                                           !.val = in[3], !.ret = -ERESTARTSYS]]
               /\ pc' = [pc EXCEPT ![c] = "returned"]
    /\ UNCHANGED <<rgb, kind, now, nrep, wire, lastRep, expired, hp, hb, k3, sd>>

\* grid3_write_pwm_assume_locked and the unlock that follows it; r is what
\* hid_hw_output_report returns, old the duty remembered before the call
grid3_write_pwm_assume_locked(c) ==
    /\ Running("grid3")
    /\ pc[c] = "nw_send"
    /\ \E r \in OutputReportResults(5) :
          LET val == clamp_val(loc[c].val, 0, 255)
              ret == IF r < 0 THEN r ELSE IF r # 5 THEN -EIO ELSE 0
          IN /\ g3' = [g3 EXCEPT
                          !.out = NzPwmReport(@, loc[c].channel, val),
                          !.status[loc[c].channel].pwm = IF ret = 0 THEN val ELSE @,
                          !.written[loc[c].channel] =
                              IF ret = 0 THEN [val |-> loc[c].val, at |-> now] ELSE @,
                          !.lock = 0]
             /\ loc' = [loc EXCEPT ![c].ret = ret, ![c].xfer = r,
                                   ![c].old = g3.status[loc[c].channel].pwm]
    /\ pc' = [pc EXCEPT ![c] = "returned"]
    /\ UNCHANGED <<rgb, kind, now, nops, nrep, wire, lastRep, expired, hp, hb, k3, sd>>

\* the attributes written to a smart device in the model
SdWriteInputs == NzWriteInputs \cup {<<"hwmon_pwm_enable", 0, 1>>}

\* smartdevice_write up to the call under the lock
smartdevice_write(c) ==
    /\ Running("smartdevice")
    /\ pc[c] = "idle"
    /\ nops < MaxOps
    /\ nops' = nops + 1
    /\ \E in \in SdWriteInputs :
          LET l == [LocInit EXCEPT !.op = "write", !.type = "hwmon_pwm", !.attr = in[1],
                                   !.channel = in[2], !.val = in[3]]
          IN CASE in[1] = "hwmon_pwm_enable" ->
                    /\ sd' = sd
                    /\ loc' = [loc EXCEPT ![c] = [l EXCEPT !.ret = 0]]
                    /\ pc' = [pc EXCEPT ![c] = "returned"]
               [] in[1] # "hwmon_pwm_enable" /\
                  sd.status[in[2]].fan_type = smartdevice_no_control ->
                    /\ sd' = sd
                    /\ loc' = [loc EXCEPT ![c] = [l EXCEPT !.ret = -EOPNOTSUPP]]
                    /\ pc' = [pc EXCEPT ![c] = "returned"]
               [] OTHER ->
                    IF mutex_is_free(sd.lock)
                    THEN /\ sd' = [sd EXCEPT !.lock = c]
                         /\ loc' = [loc EXCEPT ![c] = l]
                         /\ pc' = [pc EXCEPT ![c] = "sw_send"]
                    ELSE /\ sd' = sd
                         /\ loc' = [loc EXCEPT ![c] = [l EXCEPT !.ret = -EINTR]]
                         /\ pc' = [pc EXCEPT ![c] = "returned"]
    /\ UNCHANGED <<rgb, kind, now, nrep, wire, lastRep, expired, hp, hb, k3, g3>>

\* smartdevice_write_pwm_unlocked and the unlock that follows it
smartdevice_write_pwm_unlocked(c) ==
    /\ Running("smartdevice")
    /\ pc[c] = "sw_send"
    /\ \E r \in OutputReportResults(5) :
          LET val == clamp_val(loc[c].val, 0, 255)
              ret == IF r < 0 THEN r ELSE IF r # 5 THEN -EPIPE ELSE 0
          IN /\ sd' = [sd EXCEPT
                          !.out = NzPwmReport(@, loc[c].channel, val),
                          !.status[loc[c].channel].pwm = IF ret = 0 THEN val ELSE @,
                          !.written[loc[c].channel] =
                              IF ret = 0 THEN [val |-> loc[c].val, at |-> now] ELSE @,
                          !.lock = 0]
             /\ loc' = [loc EXCEPT ![c].ret = ret, ![c].xfer = r,
                                   ![c].old = sd.status[loc[c].channel].pwm]
    /\ pc' = [pc EXCEPT ![c] = "returned"]
    /\ UNCHANGED <<rgb, kind, now, nops, nrep, wire, lastRep, expired, hp, hb, k3, g3>>

(***************************************************************************)
(* NZXT RGB & Fan Controller (nzxt-rgb-fan-controller.c)                   *)
(***************************************************************************)
FAN_CHANNELS == 3
INPUT_REPORT_ID_FAN_STATUS == 103
FAN_STATUS_REPORT_SPEED == 2
FAN_STATUS_REPORT_VOLTAGE == 4
FAN_TYPE_NONE == 0
FAN_TYPE_DC == 1
FAN_TYPE_PWM == 2
OUTPUT_REPORT_SIZE == 64

\* fault model: a conversion that drops the remainder
scale_value_truncating(val, orig_max, new_max) ==
    IF val <= 0 THEN 0
    ELSE IF val >= orig_max THEN new_max
    ELSE (val * new_max) \div orig_max

scale_value(val, orig_max, new_max) ==
    IF val <= 0 THEN 0
    ELSE IF val >= orig_max THEN new_max
    ELSE IF (((val * new_max) % orig_max) * 2) >= orig_max
         THEN ((val * new_max) \div orig_max) + 1
         ELSE (val * new_max) \div orig_max

\* sizeof(struct set_fan_speed_report): id, magic, mask and eight duties
RgbSetFanSpeedReportSize == 3 + 8

\* struct drvdata once hid_probe has returned 0 with a device that stayed
\* silent: the zeroed allocation
RgbInit ==
    [status_received |-> 0,
     update_interval |-> 0,
     fan |-> [i \in 0..(FAN_CHANNELS - 1) |->
                 [type |-> 0, duty_percent |-> 0, rpm |-> 0, in |-> 0, curr |-> 0]]]

\* the input reports delivered in the model: a speed report, a voltage
\* report, a speed report cut short and a report of another kind
RgbDeliveries ==
    {[id |-> INPUT_REPORT_ID_FAN_STATUS, type |-> FAN_STATUS_REPORT_SPEED, short |-> FALSE,
      fan_type |-> <<FAN_TYPE_PWM, FAN_TYPE_DC, FAN_TYPE_NONE>>,
      a |-> <<1200, 800, 0>>, b |-> <<30, 77, 0>>],
     [id |-> INPUT_REPORT_ID_FAN_STATUS, type |-> FAN_STATUS_REPORT_VOLTAGE, short |-> FALSE,
      fan_type |-> <<FAN_TYPE_PWM, FAN_TYPE_DC, FAN_TYPE_NONE>>,
      a |-> <<12000, 11900, 12010>>, b |-> <<150, 90, 2>>],
     [id |-> INPUT_REPORT_ID_FAN_STATUS, type |-> FAN_STATUS_REPORT_SPEED, short |-> TRUE,
      fan_type |-> <<FAN_TYPE_DC, FAN_TYPE_DC, FAN_TYPE_DC>>,
      a |-> <<500, 500, 500>>, b |-> <<50, 50, 50>>],
     [id |-> 1, type |-> FAN_STATUS_REPORT_SPEED, short |-> FALSE,
      fan_type |-> <<FAN_TYPE_DC, FAN_TYPE_DC, FAN_TYPE_DC>>,
      a |-> <<500, 500, 500>>, b |-> <<50, 50, 50>>]}

\* handle_fan_status_report: a holds the speeds or the voltages, b the duty
\* cycles or the currents
handle_fan_status_report(d, report) ==
    IF report.short THEN d
    ELSE CASE report.type = FAN_STATUS_REPORT_SPEED ->
                [d EXCEPT
                    !.fan = [i \in 0..(FAN_CHANNELS - 1) |->
                                [@[i] EXCEPT !.type = report.fan_type[i + 1],
                                             !.rpm = report.a[i + 1],
                                             !.duty_percent = report.b[i + 1]]],
                    !.status_received = IF completion_done(@) THEN @ ELSE complete_all(@)]
           [] report.type = FAN_STATUS_REPORT_VOLTAGE ->
                [d EXCEPT
                    !.fan = [i \in 0..(FAN_CHANNELS - 1) |->
                                [@[i] EXCEPT !.type = report.fan_type[i + 1],
                                             !.in = report.a[i + 1],
                                             !.curr = report.b[i + 1]]]]
           [] OTHER -> d

hid_raw_event ==
    /\ Running("rgb")
    /\ nrep < MaxReports
    /\ nrep' = nrep + 1
    /\ \E report \in RgbDeliveries :
          /\ rgb' = IF report.id = INPUT_REPORT_ID_FAN_STATUS
                    THEN handle_fan_status_report(rgb, report)
                    ELSE rgb
          /\ lastRep' = [lastRep EXCEPT !.tag = report.id, !.size = report.type,
                                        !.crcok = ~report.short]
    /\ UNCHANGED <<kind, pc, loc, now, nops, wire, expired, hp, hb, k3, g3, sd>>

\* hwmon_read: <<ret, val>>
RgbReadValue(d, type, attr, channel) ==
    IF channel < 0 \/ channel >= FAN_CHANNELS THEN <<-EINVAL, 0>>
    ELSE CASE type = "hwmon_fan" /\ attr = "hwmon_fan_input" -> <<0, d.fan[channel].rpm>>
           [] type = "hwmon_pwm" /\ attr = "hwmon_pwm_enable" ->
                  <<0, IF d.fan[channel].type # FAN_TYPE_NONE THEN 1 ELSE 0>>
           [] type = "hwmon_pwm" /\ attr = "hwmon_pwm_mode" ->
                  <<0, IF d.fan[channel].type = FAN_TYPE_PWM THEN 1 ELSE 0>>
           [] type = "hwmon_pwm" /\ attr = "hwmon_pwm_input" ->
                  <<0, scale_value(d.fan[channel].duty_percent, 100, 255)>>
           [] type = "hwmon_in" /\ attr = "hwmon_in_input" -> <<0, d.fan[channel].in>>
           [] type = "hwmon_curr" /\ attr = "hwmon_curr_input" -> <<0, d.fan[channel].curr>>
           [] OTHER -> <<-EINVAL, 0>>

RgbReadInputs ==
    {<<"hwmon_pwm", "hwmon_pwm_input", 0>>, <<"hwmon_pwm", "hwmon_pwm_input", 1>>,
     <<"hwmon_fan", "hwmon_fan_input", 0>>}

hwmon_read(c) ==
    /\ Running("rgb")
    /\ pc[c] = "idle"
    /\ nops < MaxOps
    /\ nops' = nops + 1
    /\ \E in \in RgbReadInputs :
          LET r == RgbReadValue(rgb, in[1], in[2], in[3])
          IN loc' = [loc EXCEPT ![c] = [LocInit EXCEPT !.op = "read", !.type = in[1],
                                                      !.attr = in[2], !.channel = in[3],
                                                      !.ret = r[1], !.val = r[2]]]
    /\ pc' = [pc EXCEPT ![c] = "returned"]
    /\ UNCHANGED <<rgb, kind, now, nrep, wire, lastRep, expired, hp, hb, k3, g3, sd>>

\* send_output_report: r is -ENOMEM when kzalloc fails and otherwise what
\* hid_hw_output_report returns
send_output_report(data_size, r) ==
    IF data_size > OUTPUT_REPORT_SIZE THEN -EINVAL
    ELSE IF r < 0 THEN r ELSE 0

\* set_pwm: <<ret, drvdata>>
set_pwm(d, channel, val, r) ==
    LET duty_percent == scale_value(val, 255, 100) % 256
        ret == send_output_report(RgbSetFanSpeedReportSize, r)
    IN <<ret, IF ret = 0 THEN [d EXCEPT !.fan[channel].duty_percent = duty_percent] ELSE d>>

\* set_pwm_enable
set_pwm_enable(d, channel, val) ==
    IF val = (IF d.fan[channel].type # FAN_TYPE_NONE THEN 1 ELSE 0) THEN 0 ELSE -ENOTSUPP

RgbWriteInputs ==
    {<<"hwmon_pwm_input", 0, 129>>, <<"hwmon_pwm_input", 1, 300>>,
     <<"hwmon_pwm_input", 2, -5>>, <<"hwmon_pwm_enable", 0, 1>>}

\* hwmon_write of a pwm attribute; the driver takes no lock
hwmon_write(c) ==
    /\ Running("rgb")
    /\ pc[c] = "idle"
    /\ nops < MaxOps
    /\ nops' = nops + 1
    /\ \E in \in RgbWriteInputs, r \in OutputReportResults(OUTPUT_REPORT_SIZE) \cup {-ENOMEM} :
          LET l == [LocInit EXCEPT !.op = "write", !.type = "hwmon_pwm", !.attr = in[1],
                                   !.channel = in[2], !.val = in[3]]
          IN CASE in[2] < 0 \/ in[2] >= FAN_CHANNELS ->
                    /\ rgb' = rgb
                    /\ loc' = [loc EXCEPT ![c] = [l EXCEPT !.ret = -EINVAL]]
               [] in[2] \in 0..(FAN_CHANNELS - 1) /\ in[1] = "hwmon_pwm_enable" ->
                    /\ rgb' = rgb
                    /\ loc' = [loc EXCEPT ![c] =
                                  [l EXCEPT !.ret = set_pwm_enable(rgb, in[2], in[3])]]
               [] in[2] \in 0..(FAN_CHANNELS - 1) /\ in[1] = "hwmon_pwm_input" ->
                    /\ rgb' = set_pwm(rgb, in[2], in[3], r)[2]
                    /\ loc' = [loc EXCEPT ![c] =
                                  [l EXCEPT !.ret = set_pwm(rgb, in[2], in[3], r)[1],
                                            !.xfer = r,
                                            !.old = rgb.fan[in[2]].duty_percent]]
               [] OTHER ->
                    /\ rgb' = rgb
                    /\ loc' = [loc EXCEPT ![c] = [l EXCEPT !.ret = -EINVAL]]
    /\ pc' = [pc EXCEPT ![c] = "returned"]
    /\ UNCHANGED <<kind, now, nrep, wire, lastRep, expired, hp, hb, k3, g3, sd>>

(***************************************************************************)
(* The caller has its result and leaves the driver.                        *)
(***************************************************************************)
Return(c) ==
    /\ pc[c] = "returned"
    /\ loc' = [loc EXCEPT ![c] = LocInit]
    /\ pc' = [pc EXCEPT ![c] = "idle"]
    /\ UNCHANGED <<rgb, g3, sd, kind, now, nops, nrep, wire, lastRep, expired, hp, hb, k3>>

(***************************************************************************)
(* Time, in jiffies.  The code between two blocking points of a caller     *)
(* runs within one jiffy: the clock advances while every caller is idle,   *)
(* blocked on a lock or waiting for a completion.                          *)
(***************************************************************************)
BlockingPoints ==
    {"idle", "u_lock", "w_lock", "t_wait", "g_lock", "hw_lock", "x_fill",
     "g_fan_wait", "g_pump_wait", "kx_fill", "k_wait", "f_wait", "nw_send",
     "sw_send", "bound", "rm_debugfs", "rm_hwmon", "detached"}

Tick ==
    /\ NoneReturned
    /\ now < MaxJiffies
    /\ \A c \in Callers : pc[c] \in BlockingPoints
    /\ now' = now + 1
    /\ UNCHANGED <<rgb, g3, sd, kind, pc, loc, nops, nrep, wire, lastRep, expired, hp, hb, k3>>

Init ==
    /\ kind \in {"corsair", "hanbo", "kraken3"}
    /\ pc = [c \in Callers |-> "idle"]
    /\ loc = [c \in Callers |-> LocInit]
    /\ now = 0
    /\ nops = 0
    /\ nrep = 0
    /\ wire = NoWire
    /\ lastRep = NoRep
    /\ expired = {}
    /\ \E fans \in (IF kind = "corsair" THEN HpFanCounts ELSE {2}) : hp = HpInit(fans)
    /\ \E upd \in (IF kind = "hanbo"
                   THEN {0, 0 - (msecs_to_jiffies(STATUS_VALIDITY_MS) + 1)} ELSE {0}) :
          hb = HbInit(upd)
    /\ \E k \in (IF kind = "kraken3" THEN K3Kinds ELSE {"x53"}) : k3 = K3Init(k)
    /\ g3 = G3Init(6, 0)
    /\ sd = SdInit(3, 0)
    /\ rgb = RgbInit

Next ==
    \/ Tick
    \/ hydro_platinum_raw_event
    \/ hanbo_raw_event
    \/ kraken3_raw_event
    \/ \E c \in Callers :
          \/ hydro_platinum_read(c)
          \/ hydro_platinum_update_lock(c)
          \/ hydro_platinum_transaction_reinit(c)
          \/ hydro_platinum_send_command(c)
          \/ hydro_platinum_transaction_wait(c)
          \/ hydro_platinum_update_parse_temp(c)
          \/ hydro_platinum_update_parse_fans(c)
          \/ hydro_platinum_update_out(c)
          \/ hydro_platinum_read_switch(c)
          \/ hydro_platinum_write(c)
          \/ hydro_platinum_write_lock(c)
          \/ hydro_platinum_write_cooling_secondary(c)
          \/ hydro_platinum_write_out(c)
          \/ hanbo_hwmon_read(c)
          \/ hanbo_hid_get_status_lock(c)
          \/ hanbo_hid_write_expanded_fill(c)
          \/ hanbo_hid_write_expanded_send(c)
          \/ hanbo_hid_get_status_wait_fan(c)
          \/ hanbo_hid_get_status_wait_pump(c)
          \/ hanbo_hid_get_status_out(c)
          \/ hanbo_hwmon_read_switch(c)
          \/ hanbo_hwmon_write(c)
          \/ hanbo_hwmon_write_lock(c)
          \/ hanbo_hwmon_write_store(c)
          \/ hanbo_hwmon_write_out(c)
          \/ kraken3_write_expanded_fill(c)
          \/ kraken3_write_expanded_send(c)
          \/ kraken3_read(c)
          \/ kraken3_read_wait(c)
          \/ kraken3_read_check(c)
          \/ kraken3_write(c)
          \/ firmware_version_show(c)
          \/ firmware_version_show_wait(c)
          \/ Return(c)

Spec == Init /\ [][Next]_vars

(***************************************************************************)
(* The Kraken3 session alone, with the scheduling the kernel gives: every  *)
(* caller that can take a step eventually takes it and time advances.      *)
(* Nothing obliges the device to send a report.                            *)
(***************************************************************************)
K3SessionInit == Init /\ kind = "kraken3"

K3CallerStep(c) ==
    \/ kraken3_write_expanded_fill(c)
    \/ kraken3_write_expanded_send(c)
    \/ kraken3_read_wait(c)
    \/ kraken3_read_check(c)
    \/ firmware_version_show_wait(c)
    \/ Return(c)

K3Next ==
    \/ Tick
    \/ kraken3_raw_event
    \/ \E c \in Callers :
          \/ kraken3_write_expanded_fill(c)
          \/ kraken3_write_expanded_send(c)
          \/ kraken3_read(c)
          \/ kraken3_read_wait(c)
          \/ kraken3_read_check(c)
          \/ kraken3_write(c)
          \/ firmware_version_show(c)
          \/ firmware_version_show_wait(c)
          \/ Return(c)

FairSpec ==
    /\ K3SessionInit
    /\ [][K3Next]_vars
    /\ WF_vars(Tick)
    /\ \A c \in Callers : WF_vars(K3CallerStep(c))

(***************************************************************************)
(* hydro_platinum_probe alone: the hwmon device is registered at its end,  *)
(* so no hwmon callback runs beside it; the device may send reports from   *)
(* hid_device_io_start on.                                                 *)
(***************************************************************************)
ProbeInit ==
    /\ kind = "corsair"
    /\ pc = [c \in Callers |-> "idle"]
    /\ loc = [c \in Callers |-> LocInit]
    /\ now = 0
    /\ nops = 0
    /\ nrep = 0
    /\ wire = NoWire
    /\ lastRep = NoRep
    /\ expired = {}
    /\ \E fans \in HpFanCounts : hp = HpAlloc(fans)
    /\ hb = HbInit(0)
    /\ k3 = K3Init("x53")
    /\ g3 = G3Init(6, 0)
    /\ sd = SdInit(3, 0)
    /\ rgb = RgbInit

ProbeNext ==
    \/ Tick
    \/ hydro_platinum_raw_event
    \/ \E c \in {1} :
          \/ hydro_platinum_probe(c)
          \/ hydro_platinum_transaction_reinit(c)
          \/ hydro_platinum_send_command(c)
          \/ hydro_platinum_transaction_wait(c)
          \/ hydro_platinum_write_cooling_secondary(c)
          \/ hydro_platinum_update_lock(c)
          \/ hydro_platinum_update_parse_temp(c)
          \/ hydro_platinum_update_parse_fans(c)
          \/ hydro_platinum_update_out(c)

ProbeSpec == ProbeInit /\ [][ProbeNext]_vars

(***************************************************************************)
(* A Corsair session with one hwmon caller, entered early in the life of   *)
(* the sequence counter or next to its wrap.                               *)
(***************************************************************************)
SeqInit ==
    /\ kind = "corsair"
    /\ pc = [c \in Callers |-> "idle"]
    /\ loc = [c \in Callers |-> LocInit]
    /\ now = 0
    /\ nops = 0
    /\ nrep = 0
    /\ wire = NoWire
    /\ lastRep = NoRep
    /\ expired = {}
    /\ \E fans \in HpFanCounts, seq \in HpStartSequences : hp = HpInitAt(fans, seq)
    /\ hb = HbInit(0)
    /\ k3 = K3Init("x53")
    /\ g3 = G3Init(6, 0)
    /\ sd = SdInit(3, 0)
    /\ rgb = RgbInit

SeqNext ==
    \/ Tick
    \/ hydro_platinum_raw_event
    \/ \E c \in {1} :
          \/ hydro_platinum_read(c)
          \/ hydro_platinum_update_lock(c)
          \/ hydro_platinum_transaction_reinit(c)
          \/ hydro_platinum_send_command(c)
          \/ hydro_platinum_transaction_wait(c)
          \/ hydro_platinum_update_parse_temp(c)
          \/ hydro_platinum_update_parse_fans(c)
          \/ hydro_platinum_update_out(c)
          \/ hydro_platinum_read_switch(c)
          \/ hydro_platinum_write(c)
          \/ hydro_platinum_write_lock(c)
          \/ hydro_platinum_write_cooling_secondary(c)
          \/ hydro_platinum_write_out(c)
          \/ Return(c)

SeqSpec == SeqInit /\ [][SeqNext]_vars

(***************************************************************************)
(* The drivers that serve reads from the last status report (grid3,        *)
(* smartdevice, kraken3), observed for longer than their validity window.  *)
(***************************************************************************)
MaxStaleJiffies == 5

StaleTick ==
    /\ NoneReturned
    /\ now < MaxStaleJiffies
    /\ \A c \in Callers : pc[c] \in BlockingPoints
    /\ now' = now + 1
    /\ UNCHANGED <<rgb, kind, pc, loc, nops, nrep, wire, lastRep, expired, hp, hb, k3, g3, sd>>

StaleInit ==
    /\ kind \in {"grid3", "smartdevice", "kraken3"}
    /\ pc = [c \in Callers |-> "idle"]
    /\ loc = [c \in Callers |-> LocInit]
    /\ now = 0
    /\ nops = 0
    /\ nrep = 0
    /\ wire = NoWire
    /\ lastRep = NoRep
    /\ expired = {}
    /\ hp = HpInit(2)
    /\ hb = HbInit(0)
    /\ \E k \in (IF kind = "kraken3" THEN K3Kinds ELSE {"x53"}) : k3 = K3Init(k)
    /\ \E n \in (IF kind = "grid3" THEN NzChannelCounts ELSE {6}) : g3 = G3Init(n, 0)
    /\ \E n \in (IF kind = "smartdevice" THEN NzChannelCounts ELSE {3}) : sd = SdInit(n, 0)
    /\ rgb = RgbInit

StaleNext ==
    \/ StaleTick
    \/ grid3_raw_event
    \/ smartdevice_raw_event
    \/ kraken3_raw_event
    \/ \E c \in Callers :
          \/ grid3_read(c)
          \/ smartdevice_read(c)
          \/ kraken3_write_expanded_fill(c)
          \/ kraken3_write_expanded_send(c)
          \/ kraken3_read(c)
          \/ kraken3_read_wait(c)
          \/ kraken3_read_check(c)
          \/ Return(c)

StaleSpec == StaleInit /\ [][StaleNext]_vars

(***************************************************************************)
(* Sessions of the drivers that remember the commanded duty cycle: reads,  *)
(* writes and status reports of a Grid+ V3, a Smart Device or an RGB & Fan *)
(* Controller, with the clock running past the validity of a status.       *)
(***************************************************************************)
PwmInit ==
    /\ kind \in {"grid3", "smartdevice", "rgb"}
    /\ pc = [c \in Callers |-> "idle"]
    /\ loc = [c \in Callers |-> LocInit]
    /\ now = 0
    /\ nops = 0
    /\ nrep = 0
    /\ wire = NoWire
    /\ lastRep = NoRep
    /\ expired = {}
    /\ hp = HpInit(2)
    /\ hb = HbInit(0)
    /\ k3 = K3Init("x53")
    /\ g3 = G3Init(3, 0)
    /\ sd = SdInit(3, 0)
    /\ rgb = RgbInit

PwmNext ==
    \/ StaleTick
    \/ grid3_raw_event
    \/ smartdevice_raw_event
    \/ hid_raw_event
    \/ \E c \in Callers :
          \/ grid3_read(c)
          \/ grid3_write_pwm_input(c)
          \/ grid3_write_pwm_assume_locked(c)
          \/ smartdevice_read(c)
          \/ smartdevice_write(c)
          \/ smartdevice_write_pwm_unlocked(c)
          \/ hwmon_read(c)
          \/ hwmon_write(c)
          \/ Return(c)

PwmSpec == PwmInit /\ [][PwmNext]_vars

(***************************************************************************)
(* Sessions of a Kraken in which only duty cycles are written: fixed       *)
(* duties through hwmon and single curve points through sysfs.             *)
(***************************************************************************)
CurveInit == Init /\ kind = "kraken3"

CurveNext ==
    \E c \in Callers :
        \/ kraken3_write(c)
        \/ kraken3_fan_curve_pwm_store(c)
        \/ kraken3_write_expanded_fill(c)
        \/ kraken3_write_expanded_send(c)
        \/ Return(c)

CurveSpec == CurveInit /\ [][CurveNext]_vars

(***************************************************************************)
(* Sessions of a Hanbo in which profiles are selected and curve points     *)
(* stored.                                                                 *)
(***************************************************************************)
ProfileInit == Init /\ kind = "hanbo"

ProfileNext ==
    \E c \in Callers :
        \/ hanbo_fan_curve_pwm_store(c)
        \/ hanbo_hwmon_write(c)
        \/ hanbo_hwmon_write_lock(c)
        \/ hanbo_hid_write_expanded_fill(c)
        \/ hanbo_hid_write_expanded_send(c)
        \/ hanbo_hwmon_write_store(c)
        \/ hanbo_hwmon_write_out(c)
        \/ Return(c)

ProfileSpec == ProfileInit /\ [][ProfileNext]_vars

(***************************************************************************)
(* The conversions between the hwmon duty cycle (0..255) and the percent   *)
(* the devices take, applied to every duty cycle a caller can pass.        *)
(***************************************************************************)
MaxPwm == 255

\* the percent byte each driver derives from val, and the percent that comes
\* back when the RGB & Fan Controller driver reads a duty of val percent and
\* writes the value read
Conversions(val) ==
    [kraken3 |-> kraken3_pwm_to_percent(val),
     rgb |-> set_pwm(RgbInit, 0, val, OUTPUT_REPORT_SIZE)[2].fan[0].duty_percent,
     grid3 |-> NzPwmReport(Zeros(8), 0, clamp_val(val, 0, 255))[4],
     back |-> LET d == [RgbInit EXCEPT !.fan[0].duty_percent = val]
                  read == RgbReadValue(d, "hwmon_pwm", "hwmon_pwm_input", 0)[2]
              IN set_pwm(d, 0, read, OUTPUT_REPORT_SIZE)[2].fan[0].duty_percent]

ConvInit ==
    /\ kind = "convert"
    /\ pc = [c \in Callers |-> "idle"]
    /\ \E v \in 0..MaxPwm :
          loc = [c \in Callers |-> IF c = 1 THEN [LocInit EXCEPT !.val = v] ELSE LocInit]
    /\ now = 0
    /\ nops = 0
    /\ nrep = 0
    /\ wire = NoWire
    /\ lastRep = NoRep
    /\ expired = {}
    /\ hp = HpInit(2)
    /\ hb = HbInit(0)
    /\ k3 = K3Init("x53")
    /\ g3 = G3Init(3, 0)
    /\ sd = SdInit(3, 0)
    /\ rgb = RgbInit

ConvApply ==
    /\ kind = "convert"
    /\ pc[1] = "idle"
    /\ loc' = [loc EXCEPT ![1].op = "convert", ![1].data = Conversions(loc[1].val)]
    /\ pc' = [pc EXCEPT ![1] = "returned"]
    /\ UNCHANGED <<rgb, g3, sd, kind, now, nops, nrep, wire, lastRep, expired, hp, hb, k3>>

ConvNext == ConvApply

ConvSpec == ConvInit /\ [][ConvNext]_vars

(***************************************************************************)
(* A Corsair session with one hwmon caller whose command is answered by a  *)
(* status report that is intact or has one bit of bytes 1..63 inverted in  *)
(* transit.                                                                *)
(***************************************************************************)
MaxFlips == 1

HpFlip(report, byte, bit) == [report EXCEPT ![byte] = Xor(@, 2 ^ bit)]

HpFlipped(report) ==
    {HpFlip(report, byte, bit) : byte \in 1..(REPORT_LENGTH - 1), bit \in 0..7}

HpIntact == {HpStatusA}

HpAllFlipped == UNION {HpFlipped(report) : report \in HpIntact}

\* hydro_platinum_raw_event on an input report of the set above
hydro_platinum_raw_event_flipped ==
    /\ Running("corsair")
    /\ nrep < MaxFlips
    /\ wire.waits
    /\ \E d \in HpIntact \cup HpAllFlipped :
          /\ hp' = [hp EXCEPT
                      !.rx_buffer = HpRawEventCopy(hp.rx_buffer, d, ReportSize(d)),
                      !.wait_for_report = complete(hp.wait_for_report)]
          /\ lastRep' = [lastRep EXCEPT
                            !.tag = wire.seq, !.size = ReportSize(d),
                            !.crcok = ReportCrcOk(d), !.inflight = wire.waits]
          /\ nrep' = nrep + 1
    /\ UNCHANGED <<rgb, g3, sd, kind, pc, loc, now, nops, wire, expired, hb, k3>>

CrcInit ==
    /\ kind = "corsair"
    /\ pc = [c \in Callers |-> "idle"]
    /\ loc = [c \in Callers |-> LocInit]
    /\ now = 0
    /\ nops = 0
    /\ nrep = 0
    /\ wire = NoWire
    /\ lastRep = NoRep
    /\ expired = {}
    /\ \E fans \in HpFanCounts : hp = HpInit(fans)
    /\ hb = HbInit(0)
    /\ k3 = K3Init("x53")
    /\ g3 = G3Init(6, 0)
    /\ sd = SdInit(3, 0)
    /\ rgb = RgbInit

CrcNext ==
    \/ hydro_platinum_raw_event_flipped
    \/ \E c \in {1} :
          \/ hydro_platinum_read(c)
          \/ hydro_platinum_update_lock(c)
          \/ hydro_platinum_transaction_reinit(c)
          \/ hydro_platinum_send_command(c)
          \/ hydro_platinum_transaction_wait(c)
          \/ hydro_platinum_update_parse_temp(c)
          \/ hydro_platinum_update_parse_fans(c)
          \/ hydro_platinum_update_out(c)
          \/ hydro_platinum_read_switch(c)
          \/ hydro_platinum_write(c)
          \/ hydro_platinum_write_lock(c)
          \/ hydro_platinum_write_cooling_secondary(c)
          \/ hydro_platinum_write_out(c)
          \/ Return(c)

CrcSpec == CrcInit /\ [][CrcNext]_vars

(***************************************************************************)
(* The temperature decode of hydro_platinum_update as a function of the    *)
(* two bytes at offsets 7 and 8 of the status report.                      *)
(***************************************************************************)
TempBytes == {0, 1, 30, 50, 127, 128, 200, 254, 255}

TempInit ==
    /\ kind = "decode"
    /\ pc = [c \in Callers |-> "idle"]
    /\ loc = [c \in Callers |-> LocInit]
    /\ now = 0
    /\ nops = 0
    /\ nrep = 0
    /\ wire = NoWire
    /\ lastRep = NoRep
    /\ expired = {}
    /\ \E b7 \in TempBytes, b8 \in TempBytes :
          hp = [HpInit(2) EXCEPT !.rx_buffer[7] = b7, !.rx_buffer[8] = b8]
    /\ hb = HbInit(0)
    /\ k3 = K3Init("x53")
    /\ g3 = G3Init(3, 0)
    /\ sd = SdInit(3, 0)
    /\ rgb = RgbInit

TempApply ==
    /\ kind = "decode"
    /\ pc[1] = "idle"
    /\ hp' = HpParseTemp(hp, hp.rx_buffer)
    /\ loc' = [loc EXCEPT ![1].op = "decode"]
    /\ pc' = [pc EXCEPT ![1] = "returned"]
    /\ UNCHANGED <<rgb, g3, sd, kind, now, nops, nrep, wire, lastRep, expired, hb, k3>>

TempNext == TempApply

TempSpec == TempInit /\ [][TempNext]_vars

(***************************************************************************)
(* Session start: hydro_platinum_probe on a Corsair device, grid3_probe    *)
(* and grid3_reset_resume on a Grid+ V3 / Smart Device.  The caller of a   *)
(* grid3_probe that returned 0 stays at "bound" while the session exists.  *)
(***************************************************************************)
G3_REPORT_REQ_INIT == 1
G3_REQ_INIT_DETECT == 92
G3_REQ_INIT_OPEN == 93

\* struct grid3_data as grid3_probe has it before grid3_driver_init_assume_locked:
\* devm_kzalloc, channels, mutex_init
G3Alloc(channels) ==
    [lock |-> 0,
     channels |-> channels,
     out |-> Zeros(8),
     status |-> [i \in 0..channels |-> NzChannelZero],
     written |-> NzNotWritten]

\* grid3_probe up to the call of grid3_driver_init_assume_locked (hid_parse,
\* hid_hw_start and hid_hw_open have succeeded)
grid3_probe(c) ==
    /\ Running("grid3")
    /\ pc[c] = "idle"
    /\ c = 1
    /\ nops = 0
    /\ nops' = 1
    /\ loc' = [loc EXCEPT ![c] = [LocInit EXCEPT !.op = "probe"]]
    /\ pc' = [pc EXCEPT ![c] = "gi_req"]
    /\ UNCHANGED <<rgb, kind, now, nrep, wire, lastRep, expired, hp, hb, k3, g3, sd>>

\* grid3_reset_resume: mutex_lock and the call of
\* grid3_driver_init_assume_locked
grid3_reset_resume(c) ==
    /\ Running("grid3")
    /\ pc[c] = "idle"
    /\ pc[1] = "bound"
    /\ nops < MaxOps
    /\ mutex_is_free(g3.lock)
    /\ nops' = nops + 1
    /\ g3' = [g3 EXCEPT !.lock = c]
    /\ loc' = [loc EXCEPT ![c] = [LocInit EXCEPT !.op = "resume"]]
    /\ pc' = [pc EXCEPT ![c] = "gi_req"]
    /\ UNCHANGED <<rgb, kind, now, nrep, wire, lastRep, expired, hp, hb, k3, sd>>

\* grid3_req_init_assume_locked: the two init requests, each sent with
\* hid_hw_output_report(hdev, buf, 2); the second only if the first was
\* written whole
grid3_req_init_assume_locked(c) ==
    /\ Running("grid3")
    /\ pc[c] = "gi_req"
    /\ \E r1 \in OutputReportResults(2), r2 \in OutputReportResults(2) :
          LET ret1 == IF r1 < 0 THEN r1 ELSE IF r1 # 2 THEN -EIO ELSE 0
              ret2 == IF r2 < 0 THEN r2 ELSE IF r2 # 2 THEN -EIO ELSE 0
              ret == IF ret1 # 0 THEN ret1 ELSE ret2
          IN /\ g3' = [g3 EXCEPT
                          !.out[0] = G3_REPORT_REQ_INIT,
                          !.out[1] = IF ret1 # 0 THEN G3_REQ_INIT_DETECT
                                     ELSE G3_REQ_INIT_OPEN]
             /\ loc' = [loc EXCEPT ![c].ret = ret, ![c].channel = 0,
                                   ![c].sent = IF ret1 # 0 THEN <<G3_REQ_INIT_DETECT>>
                                               ELSE <<G3_REQ_INIT_DETECT,
                                                      G3_REQ_INIT_OPEN>>]
             /\ pc' = [pc EXCEPT ![c] = IF ret # 0 THEN "gi_out" ELSE "gi_pwm"]
    /\ UNCHANGED <<rgb, kind, now, nops, nrep, wire, lastRep, expired, hp, hb, k3, sd>>

\* one round of the loop of grid3_driver_init_assume_locked: the channel is
\* made stale and grid3_write_pwm_assume_locked(priv, i, 40 * 255 / 100)
\* is called
grid3_driver_init_assume_locked(c) ==
    /\ Running("grid3")
    /\ pc[c] = "gi_pwm"
    /\ \E r \in OutputReportResults(5) :
          LET i == loc[c].channel
              val == clamp_val((40 * 255) \div 100, 0, 255)
              ret == IF r < 0 THEN r ELSE IF r # 5 THEN -EIO ELSE 0
          IN /\ g3' = [g3 EXCEPT
                          !.status[i].updated = now - (G3_STATUS_VALIDITY * HZ),
                          !.out = NzPwmReport(@, i, val),
                          !.status[i].pwm = IF ret = 0 THEN val ELSE @,
                          !.written[i] = IF ret = 0 THEN [val |-> val, at |-> now] ELSE @]
             /\ loc' = [loc EXCEPT ![c].ret = ret, ![c].xfer = r,
                                   ![c].channel = IF ret = 0 THEN i + 1 ELSE i]
             /\ pc' = [pc EXCEPT ![c] = IF ret # 0 \/ i + 1 >= g3.channels
                                        THEN "gi_out" ELSE "gi_pwm"]
    /\ UNCHANGED <<rgb, kind, now, nops, nrep, wire, lastRep, expired, hp, hb, k3, sd>>

\* what follows grid3_driver_init_assume_locked: in grid3_probe the hwmon
\* registration or fail_hid_close, in grid3_reset_resume the unlock
grid3_driver_init_out(c) ==
    /\ Running("grid3")
    /\ pc[c] = "gi_out"
    /\ IF loc[c].op = "probe"
       THEN /\ g3' = g3
            /\ pc' = [pc EXCEPT ![c] = IF loc[c].ret = 0 THEN "bound" ELSE "failed"]
       ELSE /\ g3' = [g3 EXCEPT !.lock = 0]
            /\ pc' = [pc EXCEPT ![c] = "returned"]
    /\ UNCHANGED <<rgb, kind, loc, now, nops, nrep, wire, lastRep, expired, hp, hb, k3, sd>>

StartInit ==
    /\ kind \in {"corsair", "grid3"}
    /\ pc = [c \in Callers |-> "idle"]
    /\ loc = [c \in Callers |-> LocInit]
    /\ now = 0
    /\ nops = 0
    /\ nrep = 0
    /\ wire = NoWire
    /\ lastRep = NoRep
    /\ expired = {}
    /\ \E fans \in (IF kind = "corsair" THEN HpFanCounts ELSE {2}) : hp = HpAlloc(fans)
    /\ hb = HbInit(0)
    /\ k3 = K3Init("x53")
    /\ \E channels \in (IF kind = "grid3" THEN {3, 6} ELSE {6}) : g3 = G3Alloc(channels)
    /\ sd = SdInit(3, 0)
    /\ rgb = RgbInit

StartNext ==
    \/ Tick
    \/ hydro_platinum_raw_event
    \/ \E c \in {1} :
          \/ hydro_platinum_probe(c)
          \/ hydro_platinum_transaction_reinit(c)
          \/ hydro_platinum_send_command(c)
          \/ hydro_platinum_transaction_wait(c)
          \/ hydro_platinum_write_cooling_secondary(c)
          \/ hydro_platinum_update_lock(c)
          \/ hydro_platinum_update_parse_temp(c)
          \/ hydro_platinum_update_parse_fans(c)
          \/ hydro_platinum_update_out(c)
    \/ \E c \in Callers :
          \/ grid3_probe(c)
          \/ grid3_reset_resume(c)
          \/ grid3_req_init_assume_locked(c)
          \/ grid3_driver_init_assume_locked(c)
          \/ grid3_driver_init_out(c)
          \/ Return(c)

StartSpec == StartInit /\ [][StartNext]_vars

(***************************************************************************)
(* Sessions whose device reports a firmware version that differs from the  *)
(* one the driver has stored (the firmware was updated by other software,  *)
(* or the report belongs to another exchange).                             *)
(***************************************************************************)
\* a Corsair status report like HpStatusA with firmware version 2.1.7
HpStatusNewFw ==
    HpMkReport((0 :> 255) @@ (2 :> 33) @@ (3 :> 7) @@ (7 :> 50) @@ (8 :> 30) @@
               (14 :> 128) @@ (15 :> 176) @@ (16 :> 4) @@
               (21 :> 128) @@ (22 :> 170) @@ (23 :> 4) @@
               (28 :> 85) @@ (29 :> 40) @@ (30 :> 9))

\* Hanbo firmware reports: version 1.2.0 and version 1.3.1
HbFirmwareA ==
    HbMkReport((0 :> FIRMWARE_STATUS_REPORT_ID) @@ (1 :> 2) @@ (3 :> 80) @@
               (FIRMWARE_VERSION_OFFSET :> 1) @@ ((FIRMWARE_VERSION_OFFSET + 1) :> 32))

HbFirmwareB ==
    HbMkReport((0 :> FIRMWARE_STATUS_REPORT_ID) @@ (1 :> 2) @@ (3 :> 81) @@
               (FIRMWARE_VERSION_OFFSET :> 1) @@ ((FIRMWARE_VERSION_OFFSET + 1) :> 49))

\* a Kraken3 firmware report with version 2.2.0
K3FirmwareB ==
    K3MkReport((0 :> FIRMWARE_REPORT_ID) @@ (17 :> 2) @@ (18 :> 2) @@ (19 :> 0))

\* hydro_platinum_raw_event on an input report that answers the command in
\* flight
hydro_platinum_raw_event_firmware ==
    /\ Running("corsair")
    /\ nrep < MaxReports
    /\ wire.waits
    /\ \E d \in {HpStatusA, HpStatusNewFw} :
          /\ hp' = [hp EXCEPT
                      !.rx_buffer = HpRawEventCopy(hp.rx_buffer, d, ReportSize(d)),
                      !.wait_for_report = complete(hp.wait_for_report)]
          /\ lastRep' = [lastRep EXCEPT
                            !.tag = wire.seq, !.size = ReportSize(d),
                            !.crcok = ReportCrcOk(d), !.inflight = wire.waits]
          /\ nrep' = nrep + 1
    /\ UNCHANGED <<rgb, g3, sd, kind, pc, loc, now, nops, wire, expired, hb, k3>>

\* hanbo_raw_event on a firmware report or a pump status report
hanbo_raw_event_firmware ==
    /\ Running("hanbo")
    /\ nrep < MaxReports
    /\ nrep' = nrep + 1
    /\ \E data \in {HbFirmwareA, HbFirmwareB, HbPumpStatus} :
          LET size == ReportSize(data)
          IN /\ lastRep' = [lastRep EXCEPT
                               !.tag = data[0], !.size = size,
                               !.crcok = HbAccepts(data, size), !.inflight = wire.waits]
             /\ IF HbAccepts(data, size)
                THEN hb' = [HbStore(hb, data) EXCEPT
                              !.status_report_received =
                                  IF completion_done(@) THEN @ ELSE complete_all(@),
                              !.updated = now]
                ELSE hb' = hb
    /\ UNCHANGED <<rgb, g3, sd, kind, pc, loc, now, nops, wire, expired, hp, k3>>

\* kraken3_raw_event on a firmware report, the answer to a version request
\* or not
kraken3_raw_event_firmware ==
    /\ Running("kraken3")
    /\ nrep < MaxReports
    /\ nrep' = nrep + 1
    /\ \E data \in {K3Firmware, K3FirmwareB} :
          LET size == ReportSize(data)
              answer == wire.owed # <<>> /\ Head(wire.owed) = x53_get_fw_version_cmd[0]
          IN /\ lastRep' = [lastRep EXCEPT
                               !.tag = data[0], !.size = size, !.crcok = FALSE,
                               !.inflight = wire.waits]
             /\ wire' = IF answer THEN [wire EXCEPT !.owed = Tail(@)]
                        ELSE [wire EXCEPT !.unsolicited = @ + 1]
             /\ k3' = IF size < X53_MIN_REPORT_LENGTH THEN k3
                      ELSE [k3 EXCEPT
                              !.firmware_version =
                                  [i \in 0..2 |-> data[X53_FIRMWARE_VERSION_OFFSET + i]],
                              !.fw_version_processed = complete(@)]
    /\ UNCHANGED <<rgb, g3, sd, kind, pc, loc, now, nops, expired, hp, hb>>

\* the version the Kraken3 answered to an earlier firmware_version_show
K3FirmwareStored == [i \in 0..2 |-> K3Firmware[X53_FIRMWARE_VERSION_OFFSET + i]]

FwInit ==
    /\ kind \in {"corsair", "hanbo", "kraken3"}
    /\ pc = [c \in Callers |-> "idle"]
    /\ loc = [c \in Callers |-> LocInit]
    /\ now = 0
    /\ nops = 0
    /\ nrep = 0
    /\ wire = NoWire
    /\ lastRep = NoRep
    /\ expired = {}
    /\ hp = HpInit(2)
    /\ hb = HbInit(0)
    /\ k3 = [K3Init("x53") EXCEPT !.firmware_version = K3FirmwareStored]
    /\ g3 = G3Init(6, 0)
    /\ sd = SdInit(3, 0)
    /\ rgb = RgbInit

FwNext ==
    \/ Tick
    \/ hydro_platinum_raw_event_firmware
    \/ hanbo_raw_event_firmware
    \/ kraken3_raw_event_firmware
    \/ \E c \in {1} :
          \/ hydro_platinum_read(c)
          \/ hydro_platinum_update_lock(c)
          \/ hydro_platinum_transaction_reinit(c)
          \/ hydro_platinum_send_command(c)
          \/ hydro_platinum_transaction_wait(c)
          \/ hydro_platinum_update_parse_temp(c)
          \/ hydro_platinum_update_parse_fans(c)
          \/ hydro_platinum_update_out(c)
          \/ hydro_platinum_read_switch(c)
          \/ firmware_version_show(c)
          \/ kraken3_write_expanded_fill(c)
          \/ kraken3_write_expanded_send(c)
          \/ firmware_version_show_wait(c)
          \/ Return(c)

FwSpec == FwInit /\ [][FwNext]_vars

(***************************************************************************)
(* Teardown (hydro_platinum_remove, hanbo_remove, kraken3_remove): one     *)
(* caller uses the session while the HID core removes it.  The three       *)
(* functions are the same four calls.  debugfs_remove_recursive and        *)
(* hwmon_device_unregister return once no file operation of theirs is in   *)
(* flight and let none start afterwards; hid_hw_stop ends the delivery of   *)
(* reports.                                                                *)
(***************************************************************************)
\* fault model: the unregistration does not wait for the callbacks in flight
NothingToDrain(r, ops) == TRUE

\* no caller but r is inside a callback of the kinds in ops
Drained(r, ops) ==
    \A c \in Callers \ {r} : pc[c] \in {"idle", "detached"} \/ loc[c].op \notin ops

DebugfsOps == {"firmware"}

HwmonOps == {"read", "write", "store"}

\* the HID core calls the remove callback of the driver
hid_remove(c) ==
    /\ kind \in {"corsair", "hanbo", "kraken3"}
    /\ NoneReturned
    /\ pc[c] = "idle"
    /\ \A r \in Callers : pc[r] \in {"idle"} \/ loc[r].op # "remove"
    /\ loc' = [loc EXCEPT ![c] = [LocInit EXCEPT !.op = "remove"]]
    /\ pc' = [pc EXCEPT ![c] = "rm_debugfs"]
    /\ UNCHANGED <<rgb, kind, now, nops, nrep, wire, lastRep, expired, hp, hb, k3, g3, sd>>

\* debugfs_remove_recursive(priv->debugfs)
hid_remove_debugfs(c) ==
    /\ kind \in {"corsair", "hanbo", "kraken3"}
    /\ NoneReturned
    /\ pc[c] = "rm_debugfs"
    /\ Drained(c, DebugfsOps)
    /\ pc' = [pc EXCEPT ![c] = "rm_hwmon"]
    /\ UNCHANGED <<rgb, kind, loc, now, nops, nrep, wire, lastRep, expired, hp, hb, k3, g3,
                   sd>>

\* hwmon_device_unregister(priv->hwmon_dev): the attributes are gone, the
\* callers outside the driver cannot enter it any more
hid_remove_hwmon(c) ==
    /\ kind \in {"corsair", "hanbo", "kraken3"}
    /\ NoneReturned
    /\ pc[c] = "rm_hwmon"
    /\ Drained(c, HwmonOps)
    /\ pc' = [d \in Callers |-> IF d = c THEN "rm_close"
                                ELSE IF pc[d] = "idle" THEN "detached" ELSE pc[d]]
    /\ UNCHANGED <<rgb, kind, loc, now, nops, nrep, wire, lastRep, expired, hp, hb, k3, g3,
                   sd>>

\* hid_hw_close(hdev); hid_hw_stop(hdev); the callback returns
hid_remove_stop(c) ==
    /\ kind \in {"corsair", "hanbo", "kraken3"}
    /\ NoneReturned
    /\ pc[c] = "rm_close"
    /\ loc' = [loc EXCEPT ![c].val = nrep, ![c].ret = 0]
    /\ pc' = [pc EXCEPT ![c] = "removed"]
    /\ UNCHANGED <<rgb, kind, now, nops, nrep, wire, lastRep, expired, hp, hb, k3, g3, sd>>

RemoveNext ==
    \/ Tick
    \/ hydro_platinum_raw_event
    \/ hanbo_raw_event
    \/ kraken3_raw_event
    \/ \E c \in {1} :
          \/ hydro_platinum_read(c)
          \/ hydro_platinum_update_lock(c)
          \/ hydro_platinum_transaction_reinit(c)
          \/ hydro_platinum_send_command(c)
          \/ hydro_platinum_transaction_wait(c)
          \/ hydro_platinum_update_parse_temp(c)
          \/ hydro_platinum_update_parse_fans(c)
          \/ hydro_platinum_update_out(c)
          \/ hydro_platinum_read_switch(c)
          \/ hydro_platinum_write(c)
          \/ hydro_platinum_write_lock(c)
          \/ hydro_platinum_write_cooling_secondary(c)
          \/ hydro_platinum_write_out(c)
          \/ hanbo_hwmon_read(c)
          \/ hanbo_hid_get_status_lock(c)
          \/ hanbo_hid_write_expanded_fill(c)
          \/ hanbo_hid_write_expanded_send(c)
          \/ hanbo_hid_get_status_wait_fan(c)
          \/ hanbo_hid_get_status_wait_pump(c)
          \/ hanbo_hid_get_status_out(c)
          \/ hanbo_hwmon_read_switch(c)
          \/ hanbo_hwmon_write(c)
          \/ hanbo_hwmon_write_lock(c)
          \/ hanbo_hwmon_write_store(c)
          \/ hanbo_hwmon_write_out(c)
          \/ kraken3_write_expanded_fill(c)
          \/ kraken3_write_expanded_send(c)
          \/ kraken3_read(c)
          \/ kraken3_read_wait(c)
          \/ kraken3_read_check(c)
          \/ kraken3_write(c)
          \/ firmware_version_show(c)
          \/ firmware_version_show_wait(c)
          \/ Return(c)
    \/ \E c \in {2} :
          \/ hid_remove(c)
          \/ hid_remove_debugfs(c)
          \/ hid_remove_hwmon(c)
          \/ hid_remove_stop(c)

RemoveSpec == Init /\ [][RemoveNext]_vars

(***************************************************************************)
(* Validation of inbound reports: a Hanbo, Kraken3 or Grid+ V3 session     *)
(* receiving reports that pass and reports that fail the tests of its      *)
(* raw_event (lastRep.data keeps the report delivered last).               *)
(***************************************************************************)
\* Hanbo reports the driver refuses: an ID it does not know, a header that
\* does not match, bytes after the payload, a size other than 64
HbUnknownId == [HbPumpStatus EXCEPT ![0] = 99]

HbHeaderMismatch == [HbPumpStatus EXCEPT ![2] = 7]

HbRefused ==
    {HbUnknownId, HbHeaderMismatch, HbCorrupt} \cup
    {HpTruncate(HbPumpStatus, n) : n \in HbShortSizes}

\* Kraken3 reports the driver ignores: another ID, fewer than 20 bytes
K3OtherId == [K3StatusA EXCEPT ![0] = 99]

K3Refused == {K3OtherId} \cup {HpTruncate(K3StatusA, n) : n \in K3ShortSizes}

\* Grid+ V3 reports the driver ignores: another ID, fewer than 16 bytes
G3Refused ==
    {[NzMkStatus(0, DC_FAN, 900, 800, 15) EXCEPT ![0] = G3_REPORT_CONFIG]} \cup
    {HpTruncate(NzMkStatus(0, DC_FAN, 900, 800, 15), n) : n \in NzShortSizes}

hanbo_raw_event_validated ==
    /\ Running("hanbo")
    /\ nrep < MaxReports
    /\ nrep' = nrep + 1
    /\ \E data \in HbRefused \cup {HbPumpStatus, HbFanStatus} :
          LET size == ReportSize(data)
          IN /\ lastRep' = [lastRep EXCEPT
                               !.tag = data[0], !.size = size, !.data = data,
                               !.inflight = wire.waits]
             /\ IF HbAccepts(data, size)
                THEN hb' = [HbStore(hb, data) EXCEPT
                              !.status_report_received =
                                  IF completion_done(@) THEN @ ELSE complete_all(@),
                              !.updated = now]
                ELSE hb' = hb
    /\ UNCHANGED <<rgb, g3, sd, kind, pc, loc, now, nops, wire, expired, hp, k3>>

kraken3_raw_event_validated ==
    /\ Running("kraken3")
    /\ nrep < MaxReports
    /\ nrep' = nrep + 1
    /\ \E data \in K3Refused \cup {K3StatusA, K3StatusB} :
          LET size == ReportSize(data)
          IN /\ lastRep' = [lastRep EXCEPT
                               !.tag = data[0], !.size = size, !.data = data,
                               !.inflight = wire.waits]
             /\ k3' = IF size < X53_MIN_REPORT_LENGTH THEN k3
                      ELSE IF data[0] = FIRMWARE_REPORT_ID
                      THEN [k3 EXCEPT
                              !.firmware_version =
                                  [i \in 0..2 |-> data[X53_FIRMWARE_VERSION_OFFSET + i]],
                              !.fw_version_processed = complete(@)]
                      ELSE IF ~K3Accepts(data, size) THEN k3
                      ELSE [k3 EXCEPT
                              !.temp_input[0] =
                                  (data[X53_TEMP_SENSOR_START_OFFSET] * 1000) +
                                  (data[X53_TEMP_SENSOR_END_OFFSET] * 100),
                              !.fan_input =
                                  [i \in 0..3 |->
                                     CASE i = 0 -> get_unaligned_le16(data, X53_PUMP_SPEED_OFFSET)
                                       [] i = 1 -> data[X53_PUMP_DUTY_OFFSET]
                                       [] i = 2 -> IF k3.kind = "z53"
                                                   THEN get_unaligned_le16(data, Z53_FAN_SPEED_OFFSET)
                                                   ELSE k3.fan_input[2]
                                       [] OTHER -> IF k3.kind = "z53"
                                                   THEN data[Z53_FAN_DUTY_OFFSET]
                                                   ELSE k3.fan_input[3]],
                              !.z53_status_processed =
                                  IF k3.kind = "z53" THEN complete(@) ELSE @,
                              !.updated = now]
    /\ UNCHANGED <<rgb, g3, sd, kind, pc, loc, now, nops, wire, expired, hp, hb>>

grid3_raw_event_validated ==
    /\ Running("grid3")
    /\ nrep < MaxReports
    /\ nrep' = nrep + 1
    /\ \E data \in G3Refused \cup {NzMkStatus(0, PWM_FAN, 1200, 1196, 23)} :
          LET size == ReportSize(data)
              channel == data[15] \div 16
          IN /\ lastRep' = [lastRep EXCEPT
                               !.tag = data[0], !.size = size, !.data = data]
             /\ g3' = IF size < 16 \/ data[0] # G3_REPORT_STATUS THEN g3
                      ELSE IF channel > g3.channels THEN g3
                      ELSE [g3 EXCEPT
                              !.status[channel].rpms = get_unaligned_be16(data, 3),
                              !.status[channel].centiamps = (data[9] * 100) + data[10],
                              !.status[channel].centivolts = (data[7] * 100) + data[8],
                              !.status[channel].fan_type = data[15] % 4,
                              !.status[channel].updated = now]
    /\ UNCHANGED <<rgb, kind, pc, loc, now, nops, wire, expired, hp, hb, k3, sd>>

RejectInit ==
    /\ kind \in {"hanbo", "kraken3", "grid3"}
    /\ pc = [c \in Callers |-> "idle"]
    /\ loc = [c \in Callers |-> LocInit]
    /\ now = 0
    /\ nops = 0
    /\ nrep = 0
    /\ wire = NoWire
    /\ lastRep = NoRep
    /\ expired = {}
    /\ hp = HpInit(2)
    /\ hb = HbInit(0 - (msecs_to_jiffies(STATUS_VALIDITY_MS) + 1))
    /\ \E k \in (IF kind = "kraken3" THEN K3Kinds ELSE {"x53"}) : k3 = K3Init(k)
    /\ g3 = G3Init(6, 0)
    /\ sd = SdInit(3, 0)
    /\ rgb = RgbInit

RejectNext ==
    \/ Tick
    \/ hanbo_raw_event_validated
    \/ kraken3_raw_event_validated
    \/ grid3_raw_event_validated
    \/ \E c \in {1} :
          \/ hanbo_hwmon_read(c)
          \/ hanbo_hid_get_status_lock(c)
          \/ hanbo_hid_write_expanded_fill(c)
          \/ hanbo_hid_write_expanded_send(c)
          \/ hanbo_hid_get_status_wait_fan(c)
          \/ hanbo_hid_get_status_wait_pump(c)
          \/ hanbo_hid_get_status_out(c)
          \/ hanbo_hwmon_read_switch(c)
          \/ Return(c)

RejectSpec == RejectInit /\ [][RejectNext]_vars

(***************************************************************************)
(* Properties.                                                             *)
(***************************************************************************)

\* C1: a status transaction of the Corsair driver that a CRC-valid report,
\* delivered while its command was out and its caller blocked, has released
\* returns success only when that report carries the sequence number of the
\* command; a report with another sequence number never resolves it.
C1_WrongSequenceNeverResolves ==
    \A c \in Callers :
        (kind = "corsair" /\ pc[c] = "u_parse_temp" /\ loc[c].rel.crcok /\
         loc[c].rel.inflight)
            => loc[c].rel.tag = loc[c].seq

\* C2: a response to a Corsair transaction that already timed out, delivered
\* after the next transaction was re-armed and sent, never resolves that
\* transaction and is never decoded into the sensor cache.
C2_LateResponseDiscarded ==
    \A c \in Callers :
        (kind = "corsair" /\ loc[c].rel.tag \in expired /\ loc[c].rel.inflight)
            => /\ pc[c] \notin {"u_parse_temp", "u_parse_fans"}
               /\ ~(pc[c] = "u_out" /\ loc[c].ret = 0)

\* C3: a full-size report that fails the CRC check does not end the wait of
\* a Corsair transaction before its 500 ms deadline.
C3_CorruptReportKeepsWaiting ==
    \A c \in Callers :
        (kind = "corsair" /\ pc[c] = "u_out" /\ loc[c].refreshed /\
         loc[c].rel.size >= RESPONSE_LENGTH /\ ~loc[c].rel.crcok)
            => now >= loc[c].deadline

\* C4: when the CRC check of a Corsair status transaction fails, or the
\* transaction times out, is interrupted or cannot send, hydro_platinum_update
\* returns the error and leaves liquid_temp, pump_speed, pump_duty,
\* fan_speeds, fan_duty, fw_version, updated and valid as they were.
C4_FailedUpdateKeepsCache ==
    \A c \in Callers :
        (kind = "corsair" /\ pc[c] = "u_out" /\ loc[c].refreshed)
            => /\ (loc[c].chk # NoBuf /\ ~HpCrcOk(loc[c].chk)) => loc[c].ret = -EIO
               /\ (loc[c].rel.size >= RESPONSE_LENGTH /\ ~loc[c].rel.crcok)
                      => loc[c].ret = -EIO
               /\ loc[c].ret \in {0, -EIO, -ETIMEDOUT, -ERESTARTSYS, -EPIPE}
               /\ loc[c].ret < 0 => HpSensors(hp) = loc[c].snap

\* C4 happens: an update that follows a successful one fails its CRC check
C4_Witness ==
    \E c \in Callers :
        /\ kind = "corsair" /\ pc[c] = "u_out" /\ loc[c].refreshed
        /\ loc[c].ret = -EIO /\ loc[c].snap.valid
        /\ loc[c].snap.liquid_temp # 0

\* C5: a Corsair status transaction released by a report shorter than the
\* 64-byte response changes no sensor field, timestamp or valid flag.
C5_ShortReportNotDecoded ==
    \A c \in Callers :
        (kind = "corsair" /\ pc[c] = "u_out" /\ loc[c].refreshed /\
         loc[c].rel.size > 0 /\ loc[c].rel.size < RESPONSE_LENGTH)
            => HpSensors(hp) = loc[c].snap

\* C6: the sensor values committed by a hydro_platinum_update that a
\* well-formed report released are all decoded from the buffer contents
\* whose CRC check passed.
C6_CommitFromCheckedReport ==
    \A c \in Callers :
        (kind = "corsair" /\ pc[c] = "u_out" /\ loc[c].refreshed /\ loc[c].ret = 0 /\
         loc[c].rel.crcok)
            => LET want == HpParseFans(HpParseTemp(hp, loc[c].chk), loc[c].chk)
               IN /\ hp.liquid_temp = want.liquid_temp
                  /\ hp.pump_speed = want.pump_speed
                  /\ hp.pump_duty = want.pump_duty
                  /\ hp.fan_speeds = want.fan_speeds
                  /\ hp.fan_duty = want.fan_duty

\* C7: a caller blocked in kraken3_read (Z53) or firmware_version_show
\* always leaves its wait, whatever the device sends or fails to send.
C7_WaitsAreBounded ==
    \A c \in Callers :
        (pc[c] \in {"k_wait", "f_wait"}) ~> (pc[c] \notin {"k_wait", "f_wait"})

\* C8: on a Z53 that has answered every status request with exactly one
\* valid status report and sent nothing else, with no transport failure,
\* once no request is being composed no kraken3_read caller is left waiting
\* without a completion.
C8_NoLostWakeup ==
    (/\ kind = "kraken3" /\ k3.kind = "z53"
     /\ wire.owed = <<>> /\ wire.unsolicited = 0 /\ wire.answered = nrep
     /\ wire.failed = 0
     /\ \A c \in Callers : pc[c] \in {"idle", "k_wait"})
        => Cardinality({c \in Callers : pc[c] = "k_wait"}) <= k3.z53_status_processed

\* C9: whenever a command whose answer is awaited has been handed to the
\* transport, the sender had re-armed the completion for it beforehand
\* (Corsair transaction, Hanbo fan and pump status requests, Kraken3 Z53
\* status request and firmware request).
C9_RearmBeforeSend ==
    /\ wire.waits => wire.armed
    /\ \A c \in Callers :
          pc[c] \in {"t_wait", "g_fan_wait", "g_pump_wait", "k_wait", "f_wait"}
              => loc[c].rearmed

\* C9 happens: the Hanbo pump request is on the wire after the fan request
\* was answered, so the completion was done when it had to be re-armed
C9_Witness ==
    \E c \in Callers :
        /\ kind = "hanbo" /\ pc[c] = "g_pump_wait" /\ loc[c].fanret = 1
        /\ wire.waits /\ wire.armed /\ wire.seq = get_pump_status_cmd[0]

\* C10: every buffer handed to the transport is the complete encoding of
\* the sender's own command, and at most one caller is between the start of
\* filling the output buffer and the return of the transport send.
C10_ComposeSendExclusive ==
    /\ wire.by # 0 => wire.buf = wire.want
    /\ Cardinality({c \in Callers : pc[c] \in {"t_send", "x_send", "kx_send"}}) <= 1

\* C10 happens: one Kraken3 caller has filled the buffer and not yet sent
\* it while another one, with a different command, is held at the lock
C10_Witness ==
    \E c1, c2 \in Callers :
        /\ kind = "kraken3" /\ pc[c1] = "kx_send" /\ pc[c2] = "kx_fill"
        /\ loc[c1].cmd # loc[c2].cmd

\* C11: per Corsair session and per Hanbo session at most one request is in
\* flight: while one caller waits for the response to its command, no other
\* caller is composing, sending or waiting for a command of its own.
C11_OneTransactionInFlight ==
    \A c1, c2 \in Callers :
        c1 # c2 =>
            /\ (kind = "corsair" /\ pc[c1] = "t_wait")
                  => /\ pc[c2] \notin {"t_reinit", "t_send", "t_wait", "u_parse_temp",
                                       "u_parse_fans", "u_out", "w_secondary", "w_out"}
                     /\ wire.by = c1
            /\ (kind = "hanbo" /\ pc[c1] \in {"g_fan_wait", "g_pump_wait"})
                  => /\ pc[c2] \notin {"x_fill", "x_send", "g_fan_wait", "g_pump_wait",
                                       "g_out", "hw_store", "hw_out"}
                     /\ (wire.by # 0 => wire.by = c1)

\* C11 happens: a Corsair reader waits for its status response while a
\* writer is held at priv->lock
C11_Witness ==
    \E c1, c2 \in Callers :
        /\ kind = "corsair" /\ pc[c1] = "t_wait" /\ loc[c1].op = "read"
        /\ pc[c2] = "w_lock" /\ loc[c2].op = "write" /\ hp.lock = c1

\* C12: after the first command the Corsair sequence counter is in 1..31;
\* every command handed to the transport carries the counter in bits 7..3
\* of byte 2, and the counter of a command is (s mod 31) + 1 for the counter
\* s of the command before it, so that two consecutive commands differ.
C12_SequenceCounter ==
    [][kind = "corsair" =>
          /\ hp'.sequence # hp.sequence
                => /\ hp'.sequence \in 1..31
                   /\ hp'.sequence = (IF hp.sequence >= 31 THEN 1 ELSE hp.sequence + 1)
                   /\ hp'.tx_buffer[2] \div 8 = hp'.sequence
          /\ \A c \in Callers :
                (pc[c] # "t_send" /\ pc'[c] = "t_send")
                   => hp'.sequence # hp.sequence
          /\ (wire'.by # 0 /\ wire' # wire)
                => /\ wire'.buf[2] \div 8 = hp.sequence
                   /\ wire'.buf[2] \div 8 \in 1..31
                   /\ hp'.sequence = hp.sequence]_vars

\* C12 happens: the counter has wrapped from 31 to 1 and the command that
\* carries 1 is out
C12_Witness ==
    /\ kind = "corsair" /\ wire.by # 0 /\ wire.buf[2] \div 8 = 1
    /\ hp.sequence = 1 /\ pc[wire.by] = "t_wait"

\* C13: the Corsair sequence counter and output buffer change only in a step
\* of the caller that holds priv->lock.
C13_ModifiedOnlyUnderLock ==
    [][(kind = "corsair"
          /\ (hp'.sequence # hp.sequence \/ hp'.tx_buffer # hp.tx_buffer))
          => \E c \in Callers : hp.lock = c /\ pc'[c] # pc[c]]_vars

\* C14: a grid3 or kraken3 sensor read made before the first valid status
\* report of its channel returns -ENODATA, at the creation jiffy as at any
\* later one.
C14_FirstReadIsStale ==
    \A c \in Callers :
        (pc[c] = "returned" /\ loc[c].op = "read")
            => /\ (kind = "grid3" /\ lastRep.seen[loc[c].channel] = -1)
                     => loc[c].ret = -ENODATA
               /\ (kind = "kraken3" /\ lastRep.seen[0] = -1
                     /\ loc[c].type \in {"hwmon_temp", "hwmon_fan"})
                     => loc[c].ret = -ENODATA

C16_FreshFromStatusReports ==
    \A c \in Callers :
        (kind = "hanbo" /\ pc[c] = "returned" /\ loc[c].op = "read" /\ loc[c].ret = 0)
            => /\ loc[c].type = "hwmon_fan"
                     => /\ lastRep.fan_at # -1
                        /\ now - lastRep.fan_at <= msecs_to_jiffies(STATUS_VALIDITY_MS)
               /\ loc[c].type = "hwmon_temp"
                     => /\ lastRep.pump_at # -1
                        /\ now - lastRep.pump_at <= msecs_to_jiffies(STATUS_VALIDITY_MS)

\* C17: the report that releases the wait for the fan status response is a
\* fan status report, and the one that releases the wait for the pump status
\* response is a pump status report.
C17_ReleasedByMatchingReport ==
    \A c \in Callers :
        (kind = "hanbo" /\ loc[c].op = "read" /\ loc[c].tcaller = "pump")
            => /\ (pc[c] \in {"x_fill", "x_send", "g_pump_wait"} /\ loc[c].fanret > 0)
                     => loc[c].rel.woke = FAN_STATUS_REPORT_ID
               /\ (pc[c] = "g_out" /\ loc[c].ret > 0)
                     => loc[c].rel.woke = PUMP_STATUS_REPORT_ID

\* C18: a Hanbo read whose wait for the fan status response timed out or
\* was interrupted returns an error.
C18_FanTimeoutSurfaced ==
    \A c \in Callers :
        (kind = "hanbo" /\ pc[c] = "returned" /\ loc[c].op = "read"
           /\ loc[c].fanret < 0)
            => loc[c].ret < 0

\* C19: a hydro_platinum_write_cooling call hands the main cooling command
\* (feature 0x00) to the transport first; the secondary command (feature
\* 0x03) follows only on a device with three fans and only after the main
\* transaction has returned 0, never after a main transaction that failed.
C19_MainBeforeSecondary ==
    \A c \in Callers :
        (kind = "corsair" /\ loc[c].tcaller \in {"main", "secondary"})
            => /\ loc[c].sent # <<>> => loc[c].sent[1] = FEATURE_COOLING
               /\ (loc[c].tcaller = "main" /\ pc[c] # "w_secondary")
                     => /\ loc[c].sent \in {<<>>, <<FEATURE_COOLING>>}
                        /\ loc[c].mainret = 1
               /\ (loc[c].tcaller = "secondary"
                     \/ pc[c] = "w_secondary"
                     \/ (\E i \in DOMAIN loc[c].sent : loc[c].sent[i] = FEATURE_COOLING_FAN3))
                     => /\ hp.fan_count >= 3
                        /\ IF pc[c] = "w_secondary" THEN loc[c].ret = 0
                           ELSE loc[c].mainret = 0

\* C19 happens: the secondary command is out after a main transaction that
\* succeeded
C19_Witness ==
    \E c \in Callers :
        /\ kind = "corsair" /\ pc[c] = "t_wait" /\ loc[c].tcaller = "secondary"
        /\ loc[c].sent = <<FEATURE_COOLING, FEATURE_COOLING_FAN3>>
        /\ wire.by = c /\ wire.buf[2] % 8 = FEATURE_COOLING_FAN3

\* C20: one hydro_platinum_write_cooling call hands the main command to the
\* transport exactly once and the secondary command at most once, whatever
\* the secondary transaction returns, and the call returns the result of the
\* secondary transaction: -EIO when its response fails the CRC check, 0 only
\* when the response passed it.
C20_NoResend ==
    \A c \in Callers :
        (kind = "corsair" /\ loc[c].tcaller \in {"main", "secondary"})
            => /\ Len(loc[c].sent) <= 2
               /\ Len(loc[c].sent) = 2
                     => loc[c].sent = <<FEATURE_COOLING, FEATURE_COOLING_FAN3>>
               /\ pc[c] \in {"w_out", "returned"}
                     => /\ loc[c].sent \in {<<FEATURE_COOLING>>,
                                           <<FEATURE_COOLING, FEATURE_COOLING_FAN3>>}
                        /\ loc[c].tcaller = "secondary"
                              => /\ loc[c].ret \in {0, -EPIPE, -ETIMEDOUT, -ERESTARTSYS, -EIO}
                                 /\ loc[c].ret = 0
                                       => (loc[c].chk # NoBuf /\ HpCrcOk(loc[c].chk))
                                 /\ loc[c].ret = -EIO
                                       => (loc[c].chk # NoBuf /\ ~HpCrcOk(loc[c].chk))

\* C20 happens: the secondary transaction has failed and the write returns
\* its error with the main command sent once
C20_Witness ==
    \E c \in Callers :
        /\ kind = "corsair" /\ pc[c] = "w_out" /\ loc[c].tcaller = "secondary"
        /\ loc[c].ret < 0
        /\ loc[c].sent = <<FEATURE_COOLING, FEATURE_COOLING_FAN3>>
\* C21: a pwm write of the Grid+ V3, Smart Device and RGB & Fan Controller
\* drivers that reached the transport leaves the new commanded value in the
\* stored pwm / duty when the output report was sent in full, and leaves the
\* stored value as it was when the transport failed or wrote only a part.
C21_StoredOnlyWhenSent ==
    \A c \in Callers :
        (pc[c] = "returned" /\ loc[c].op = "write" /\ loc[c].attr = "hwmon_pwm_input" /\
         loc[c].xfer # 0)
            => LET ch == loc[c].channel
                   stored == CASE kind = "grid3" -> g3.status[ch].pwm
                               [] kind = "smartdevice" -> sd.status[ch].pwm
                               [] OTHER -> rgb.fan[ch].duty_percent
                   commanded == IF kind = "rgb" THEN scale_value(loc[c].val, 255, 100)
                                ELSE clamp_val(loc[c].val, 0, 255)
                   full == loc[c].xfer = (IF kind = "rgb" THEN OUTPUT_REPORT_SIZE ELSE 5)
               IN stored = (IF full THEN commanded ELSE loc[c].old)

\* C22: a hwmon write of the Corsair driver whose cooling command failed
\* returns with target_pump_mode, target_fan_mode and target_fan_duty as they
\* were before the write.
C22_FailedWriteKeepsTargets ==
    \A c \in Callers :
        (kind = "corsair" /\ pc[c] = "returned" /\ loc[c].op = "write" /\
         loc[c].tcaller # "none" /\ loc[c].ret # 0)
            => HpTargets(hp) = loc[c].old

\* C23: a read of pwm_input on a Grid+ V3 or Smart Device channel, made in
\* the jiffy in which a write of v to that channel returned 0, returns
\* clamp(v, 0, 255), whether or not a status report has been received.
C23_ReadBackAfterWrite ==
    \A c \in Callers :
        LET ch == loc[c].channel
            w == IF kind = "grid3" THEN g3.written[ch] ELSE sd.written[ch]
        IN (kind \in {"grid3", "smartdevice"} /\ pc[c] = "returned" /\
            loc[c].op = "read" /\ loc[c].attr = "hwmon_pwm_input" /\ w.at = now)
               => (loc[c].ret = 0 /\ loc[c].val = clamp_val(w.val, 0, 255))

\* the curve points of a command that sets a duty curve
K3Points(cmd) ==
    [i \in 0..(K3_CUSTOM_CURVE_POINTS - 1) |-> cmd[X53_SET_PUMP_DUTY_CMD_HEADER_LENGTH + i]]

\* C24: a curve-point store of the Kraken driver whose value is outside
\* 0..255, or whose percent is outside 20..100, returns -EINVAL without
\* reaching the transmission and with both stored curves as they were.
C24_StoreRejectsOutOfRange ==
    \A c \in Callers :
        (kind = "kraken3" /\ loc[c].op = "store" /\ kraken3_pwm_to_percent(loc[c].val) < 0)
            => /\ pc[c] = "returned"
               /\ loc[c].ret = -EINVAL
               /\ loc[c].tcaller = "none"
               /\ <<k3.pump_curve, k3.fan_curve>> = loc[c].old

\* C25: every duty curve the Kraken driver has handed to the transport has
\* each of its 40 points within 20..100.
C25_TransmittedCurveInRange ==
    (kind = "kraken3" /\ wire.by # 0 /\ wire.buf[0] = x53_set_pump_duty_cmd_header[0])
        => \A i \in 0..(K3_CUSTOM_CURVE_POINTS - 1) :
              K3Points(wire.buf)[i] \in X53_SET_PUMP_DUTY_MIN..X53_SET_PUMP_DUTY_MAX

\* C26: the curve of a fixed-duty write of the Kraken driver, as built and
\* as transmitted, has the converted percent at points 0..38 and 100 at point
\* 39, whatever curve points were stored before; for a write of 255 all 40
\* points are 100.
C26_FixedDutyFill ==
    /\ \A i \in 0..(K3_CUSTOM_CURVE_POINTS - 1) :
           K3FixedCurve(kraken3_pwm_to_percent(255))[i] = 100
    /\ \A c \in Callers :
           (kind = "kraken3" /\ loc[c].op = "write" /\ loc[c].tcaller = "write")
               => LET percent == DIV_ROUND_CLOSEST(loc[c].val * 100, 255)
                      expected == [i \in 0..(K3_CUSTOM_CURVE_POINTS - 1) |->
                                      IF i < 39 THEN percent ELSE 100]
                  IN /\ K3Points(loc[c].cmd) = expected
                     /\ (pc[c] = "returned" /\ loc[c].ret = 0 /\ wire.by = c)
                            => K3Points(wire.buf) = expected

\* a fixed-duty write has been transmitted after a curve point was stored
C26_Witness ==
    \E c \in Callers :
        /\ kind = "kraken3" /\ pc[c] = "returned" /\ loc[c].op = "write"
        /\ loc[c].ret = 0 /\ wire.by = c
        /\ k3.pump_curve # Zeros(K3_CUSTOM_CURVE_POINTS)

\* C27: a write of pwm_enable = 4 to a Hanbo channel whose stored curve has
\* a duty lower than the one before it returns -EINVAL, builds and transmits
\* no command, and leaves active_profile and profile_sticky of the channel as
\* they were.
C27_DecreasingCurveRefused ==
    \A c \in Callers :
        (kind = "hanbo" /\ loc[c].op = "write" /\ loc[c].type = "hwmon_pwm_enable" /\
         loc[c].val = CURVE_PROFILE_ID /\
         \E i \in 0..(CUSTOM_CURVE_POINTS - 2) :
            loc[c].old[loc[c].channel].pwm_points[i + 1] <
                loc[c].old[loc[c].channel].pwm_points[i])
            => /\ pc[c] \in {"hw_out", "returned"}
               /\ loc[c].ret = -EINVAL
               /\ loc[c].tcaller = "none" /\ loc[c].cmd = NoBuf
               /\ hb.channel_info[loc[c].channel].active_profile =
                      loc[c].old[loc[c].channel].active_profile
               /\ hb.channel_info[loc[c].channel].profile_sticky =
                      loc[c].old[loc[c].channel].profile_sticky

\* the curve profile has been refused for a curve that a store made decrease
C27_Witness ==
    \E c \in Callers :
        /\ kind = "hanbo" /\ pc[c] = "returned" /\ loc[c].op = "write"
        /\ loc[c].type = "hwmon_pwm_enable" /\ loc[c].val = CURVE_PROFILE_ID
        /\ loc[c].ret = -EINVAL
        /\ hb.channel_info[PUMP_CHANNEL].pwm_points[0] = 90

\* C28: a write of pwm_enable to a Hanbo channel with a value outside 1..4,
\* values congruent to 1..4 modulo 256 and negative values included, returns
\* -EINVAL without building or transmitting a command.
C28_ProfileOutsideRangeRefused ==
    \A c \in Callers :
        (kind = "hanbo" /\ loc[c].op = "write" /\ loc[c].type = "hwmon_pwm_enable" /\
         loc[c].val \notin QUIET_PROFILE_ID..CURVE_PROFILE_ID)
            => /\ pc[c] \in {"hw_out", "returned"}
               /\ loc[c].ret = -EINVAL
               /\ loc[c].tcaller = "none" /\ loc[c].cmd = NoBuf

\* C29: for every val in 0..255 the percent byte of kraken3_pwm_to_percent
\* (where it accepts val), of scale_value(val, 255, 100) in set_pwm and of
\* grid3_write_pwm_assume_locked is val * 100 / 255 rounded to the nearest
\* integer.
C29_RoundsToNearest ==
    (kind = "convert" /\ pc[1] = "returned")
        => LET val == loc[1].val
               nearest == ((2 * val * 100) + 255) \div (2 * 255)
           IN /\ loc[1].data.kraken3 >= 0 => loc[1].data.kraken3 = nearest
              /\ loc[1].data.rgb = nearest
              /\ loc[1].data.grid3 = nearest

\* C30: for every p in 0..100, a duty of p percent read through hwmon_read
\* and written back through set_pwm is stored, and sent, as p percent:
\* scale_value(scale_value(p, 100, 255), 255, 100) = p.
C30_DutyRoundTrip ==
    (kind = "convert" /\ pc[1] = "returned" /\ loc[1].val <= 100)
        => /\ loc[1].data.back = loc[1].val
           /\ scale_value(scale_value(loc[1].val, 100, 255), 255, 100) = loc[1].val

\* a duty that is not a multiple of 20 percent has made the round trip
C30_Witness ==
    /\ kind = "convert" /\ pc[1] = "returned"
    /\ loc[1].val = 37 /\ loc[1].data.back = 37

\* C31: Corsair checksum integrity.  A transaction that verified an intact
\* status report returns 0; when the report it verified is that report
\* with one bit of bytes 1..63 inverted, the transaction returns -EIO, and
\* a read that refreshed through it leaves the sensor cache as it was when
\* the read took the lock; and every command in flight carries in byte 64
\* the CRC-8 of its bytes 2..63.
HpVerified(c) ==
    IF loc[c].chk = NoBuf THEN NoBuf
    ELSE [i \in 0..(RESPONSE_LENGTH - 1) |-> loc[c].chk[i]]

C31_ChecksumIntegrity ==
    /\ \A c \in Callers :
          (kind = "corsair" /\ HpVerified(c) \in HpIntact /\ loc[c].op = "read")
             => loc[c].ret \in {0, -EOPNOTSUPP}
    /\ \A c \in Callers :
          (kind = "corsair" /\ HpVerified(c) \in HpAllFlipped)
             => /\ loc[c].ret = -EIO
                /\ pc[c] \in {"u_out", "w_out", "r_switch", "returned"}
                /\ loc[c].op = "read" => HpSensors(hp) = loc[c].snap
    /\ (kind = "corsair" /\ wire.waits)
          => wire.buf[REPORT_LENGTH] = crc8(wire.buf, 2, REPORT_LENGTH - 2, 0)

C31_Witness ==
    /\ kind = "corsair" /\ pc[1] = "returned" /\ loc[1].op = "read"
    /\ HpVerified(1) = HpFlip(HpStatusA, REPORT_LENGTH - 1, 7)
    /\ loc[1].ret = -EIO
    /\ loc[1].sent = <<FEATURE_COOLING>>

\* C32 as stated: the liquid temperature is D * 1000 + floor(F * 1000 / 255)
\* for the integer-degree byte D and the fractional byte F, and the bytes
\* 0x1E followed by 0x32 at the temperature offset decode to 30196.
C32_DegreesThenFraction ==
    (kind = "decode" /\ pc[1] = "returned"
        /\ hp.rx_buffer[7] = 30 /\ hp.rx_buffer[8] = 50)
       => hp.liquid_temp = 30196

\* C32, amended: the fractional byte F is the first of the two bytes (offset
\* 7) and the integer-degree byte D the second (offset 8); the temperature is
\* D * 1000 + floor(F * 1000 / 255), so 0x32 followed by 0x1E decodes to
\* 30196 and 0x1E followed by 0x32 to 50117.
C32_TemperatureDecode ==
    (kind = "decode" /\ pc[1] = "returned")
       => LET F == hp.rx_buffer[7]
              D == hp.rx_buffer[8]
          IN /\ \E q \in 0..1000 :
                   /\ q * 255 <= F * 1000 /\ F * 1000 < (q + 1) * 255
                   /\ hp.liquid_temp = D * 1000 + q
             /\ (F = 50 /\ D = 30) => hp.liquid_temp = 30196
             /\ (F = 30 /\ D = 50) => hp.liquid_temp = 50117

C32_Witness ==
    /\ kind = "decode" /\ pc[1] = "returned"
    /\ hp.rx_buffer[7] = 50 /\ hp.rx_buffer[8] = 30
    /\ hp.liquid_temp = 30196

\* C33: a Corsair session is available only after the default command
\* (pump Balanced, every fan at fixed duty 128) was carried out with
\* success; a grid3 session starts, and a reset-resume returns 0, only after
\* every channel was commanded to 40 percent with success (stored pwm 102)
\* and made stale.
C33_DefaultsBeforeSession ==
    /\ (kind = "corsair" /\ pc[1] = "probed")
          => /\ loc[1].initret = 0
             /\ hp.target_pump_mode = PUMP_MODE_BALANCED
             /\ \A i \in 0..(MAX_FAN_COUNT - 1) :
                   /\ hp.target_fan_mode[i] = FAN_MODE_FIXED_DUTY
                   /\ hp.target_fan_duty[i] = 128
    /\ \A c \in Callers :
          (kind = "grid3"
              /\ \/ pc[c] = "bound" /\ loc[c].op = "probe" /\ nops = 1
                 \/ pc[c] = "returned" /\ loc[c].op = "resume" /\ loc[c].ret = 0)
             => \A i \in 0..(g3.channels - 1) :
                   /\ g3.status[i].pwm = 102
                   /\ g3.written[i].val = 102
                   /\ pc[c] = "returned" => g3.written[i].at = now
                   /\ g3.status[i].updated = g3.written[i].at - (G3_STATUS_VALIDITY * HZ)

\* C34: the firmware version is write-once.  A Hanbo or Kraken3 session
\* that holds the version the device reported keeps that version whatever
\* reports arrive and whatever is requested, and a Corsair
\* read that found the cache valid leaves fw_version as it found it.
C34_FirmwareWriteOnce ==
    /\ kind = "hanbo" => hb.firmware_version = HbInit(0).firmware_version
    /\ kind = "kraken3" => k3.firmware_version = K3FirmwareStored
    /\ \A c \in Callers :
          (kind = "corsair" /\ loc[c].snap # NoBuf /\ loc[c].snap.valid)
             => hp.fw_version = loc[c].snap.fw_version

C36_RejectedReportsChangeNothing ==
    [][(nrep' = nrep + 1)
          => /\ (kind = "hanbo" /\ lastRep'.data \in HbRefused) => hb' = hb
             /\ (kind = "kraken3" /\ lastRep'.data \in K3Refused) => k3' = k3
             /\ (kind = "grid3" /\ lastRep'.data \in G3Refused) => g3' = g3]_vars

C36_Witness ==
    /\ kind = "hanbo" /\ lastRep.data = HbHeaderMismatch
    /\ pc[1] = "g_pump_wait" /\ ~completion_done(hb.status_report_received)
    /\ now > 0

\* C37: once a hwmon read or write has returned, with success or with any
\* error, the caller holds no lock of the session: not priv->lock of the
\* Corsair driver, not status_report_request_mutex or buffer_lock of the
\* Hanbo driver, not buffer_lock of the Kraken3 driver.
C37_LocksReleasedOnReturn ==
    \A c \in Callers :
       pc[c] \in {"returned", "idle"}
          => /\ hp.lock # c
             /\ hb.status_report_request_mutex # c
             /\ hb.buffer_lock # c
             /\ k3.buffer_lock # c

C37_Witness ==
    \E c \in Callers :
       /\ kind = "corsair" /\ pc[c] = "returned" /\ loc[c].op = "write"
       /\ loc[c].ret = -EINVAL /\ hp.lock = 0

\* C38: on-demand refresh of the Corsair cache.  A read sends a status
\* request exactly when, as it takes the lock, the cache is not valid or is
\* more than STATUS_VALIDITY (1000 ms) old; a read inside the window sends
\* nothing and hands out the cached value; a read whose refresh failed
\* hands out the error and no value.
C38_RefreshOnDemand ==
    \A c \in Callers :
       (kind = "corsair" /\ loc[c].op = "read")
          => LET due == \/ ~loc[c].snap.valid
                        \/ now > loc[c].snap.updated + msecs_to_jiffies(STATUS_VALIDITY)
                 failed == /\ hp.updated = loc[c].snap.updated
                           /\ hp.valid = loc[c].snap.valid
             IN /\ pc[c] = "t_reinit" => due /\ loc[c].refreshed
                /\ (pc[c] = "u_out" /\ ~loc[c].refreshed) => ~due
                /\ pc[c] \in {"u_out", "r_switch", "returned"}
                      => /\ loc[c].refreshed <=> loc[c].sent # <<>>
                         /\ loc[c].refreshed => loc[c].sent = <<FEATURE_COOLING>>
                /\ (pc[c] = "returned" /\ ~loc[c].refreshed)
                      => /\ loc[c].ret \in {0, -EOPNOTSUPP}
                         /\ HpSensors(hp) = loc[c].snap
                         /\ loc[c].ret = 0
                               => loc[c].val = HpReadValue(hp, loc[c].type, loc[c].channel)
                /\ (pc[c] = "returned" /\ loc[c].refreshed /\ failed)
                      => loc[c].ret < 0 /\ loc[c].val = 0

C38_Witness ==
    \E c \in Callers :
       /\ kind = "corsair" /\ pc[c] = "returned" /\ loc[c].op = "read"
       /\ ~loc[c].refreshed /\ loc[c].snap.valid
       /\ now = loc[c].snap.updated + msecs_to_jiffies(STATUS_VALIDITY)
       /\ loc[c].type = "hwmon_temp" /\ loc[c].val = 30196

\* C39: the channel index taken from the high nibble of byte 15 is used to
\* write status[channel] only when channel < number of channels, so that a
\* report naming channel = number of channels leaves the memory behind the
\* last channel (status[channels]) as it was allocated.
C39_ChannelIndexBound ==
    /\ kind = "grid3" => g3.status[g3.channels] = NzChannelZero
    /\ kind = "smartdevice" => sd.status[sd.channels] = NzChannelZero

\* C40: on a Hanbo session a channel whose profile_sticky flag is set has
\* active_profile = CURVE_PROFILE_ID (4), and a curve activation whose send
\* failed has left profile_sticky and active_profile of every channel as
\* they were before the write.
C40_StickyMeansCurveProfile ==
    kind = "hanbo"
       => /\ \A ch \in {PUMP_CHANNEL, FAN_CHANNEL} :
                hb.channel_info[ch].profile_sticky
                   => hb.channel_info[ch].active_profile = CURVE_PROFILE_ID
          /\ \A c \in Callers :
                (pc[c] = "returned" /\ loc[c].op = "write" /\ loc[c].type = "hwmon_pwm"
                    /\ loc[c].val % 256 = CURVE_PROFILE_ID /\ loc[c].ret < 0)
                   => \A ch \in {PUMP_CHANNEL, FAN_CHANNEL} :
                         /\ hb.channel_info[ch].profile_sticky
                               = loc[c].old[ch].profile_sticky
                         /\ hb.channel_info[ch].active_profile
                               = loc[c].old[ch].active_profile

====
